---- MODULE Spec2Model ----
(***************************************************************************)
(* The exercise-download service of the exercism command-line client       *)
(* (src/service/download.go): DownloadParams construction and validation,  *)
(* NewDownload (the solution-record fetch), Download.validate /            *)
(* NewDownloadWriter, Download.Exercise, the legacy path sanitizer,        *)
(* WriteSolutionFiles and WriteMetadata, and the download command that     *)
(* drives them (src/cmd/download.go).                                      *)
(*                                                                         *)
(* Opaque text (tokens, urls, error messages) is a TLA+ string, built with *)
(* \o where the code formats it.  Text the code scans (paths, file names,  *)
(* slugs used in the sanitizer's pattern) is a sequence of one-character   *)
(* strings.  A Go error is a sequence: <<>> for nil, <<msg>> otherwise.    *)
(* A nil pointer is the value Nil.                                         *)
(***************************************************************************)
EXTENDS Naturals, Sequences, FiniteSets, TLC

VARIABLES
    pc,         \* what the caller of the service has done so far
    call,       \* the arguments of the constructor that was invoked
    params,     \* the *DownloadParams the constructor returned (or Nil)
    err,        \* the error the last operation returned
    request,    \* the solution-record request NewDownload issued (or Nil)
    response,   \* the response NewDownload received (or Nil)
    download,   \* the *Download NewDownload returned (or Nil)
    writer,     \* the *DownloadWriter NewDownloadWriter returned (or Nil)
    exercise,   \* the workspace.Exercise last computed by Download.Exercise
    file,       \* sanitizer: the raw file name from the solution's file list
    slug,       \* sanitizer: the exercise slug the pattern is built from
    sanitized,  \* sanitizer: the results of sanitizeLegacyFilepath, pass by pass
    writePath,  \* sanitizer: <<fileWritePath>>, where the file is created
    fs,         \* writer: the filesystem, its files with their content and its directories
    fs0,        \* writer: the filesystem before the first WriteSolutionFiles
    server,     \* writer: the file server's response for each entry of the file list
    idx,        \* writer: the position of WriteSolutionFiles' loop in the file list
    requested,  \* writer: the entries requestFile has sent a request for, in order
    done,       \* writer: what became of the entries processed so far
    run,        \* writer: "first" in the first invocation; in the second one "retry"
                \* after an error of the first, "again" after its success
    open,       \* writer: the response bodies and files that are open
    deferred,   \* writer: the Close calls deferred until WriteSolutionFiles returns
    metaWrites, \* writer: the Write calls the metadata collaborator has received
    Out         \* command: the lines printResult has printed to Out

vars == <<pc, call, params, err, request, response, download, writer,
          exercise, file, slug, sanitized, writePath,
          fs, fs0, server, idx, requested, done, run, open, deferred, metaWrites,
          Out>>

flowVars == <<pc, call, params, err, request, response, download, writer, exercise>>
sanVars == <<file, slug, sanitized, writePath>>
wrVars == <<fs, fs0, server, idx, requested, done, run, open, deferred, metaWrites>>

\* A filesystem with nothing in it but the root directory.
EmptyFS == [files |-> {}, dirs |-> {}]

\* The writer's variables while no DownloadWriter is at work.
WriterIdle ==
    /\ fs = EmptyFS
    /\ fs0 = EmptyFS
    /\ server = <<>>
    /\ idx = 0
    /\ requested = <<>>
    /\ done = <<>>
    /\ run = "first"
    /\ open = {}
    /\ deferred = <<>>
    /\ metaWrites = <<>>

Nil == [nil |-> TRUE]
NoErr == <<>>
Error(msg) == <<msg>>

IsEmpty(s) == Len(s) = 0

(***************************************************************************)
(* Bounds of the model.                                                    *)
(***************************************************************************)
MaxTrackIDs == 2
MaxPathLen == 6
MaxPasses == 2
MaxFiles == 2

(***************************************************************************)
(* User configuration (viper) and the inputs of the two constructors.     *)
(***************************************************************************)
RequiredCfgs == <<"token", "workspace", "apibaseurl">>

Workspace == <<"/", "w">>
ApiBaseURL == "https://api.exercism.io/v1"
LocalBaseURL == "http://localhost:3000/api"
BadBaseURL == ":bad"

UserConfigs ==
    [token : {"", "abc123"},
     workspace : {<<>>, Workspace},
     apibaseurl : {"", ApiBaseURL, LocalBaseURL, BadBaseURL}]

\* viper.GetString: the value stored under the key.
GetString(cfg, key) == cfg[key]

Slugs == {"", "bogus-exercise"}
UUIDs == {"", "bogus-uuid"}
Tracks == {"", "bogus-track"}
Teams == {"", "bogus-team"}

Exercises == [Slug : Slugs, Track : Tracks]

FlagNames == {"uuid", "exercise", "track", "team"}

\* A flag set: the flags that are defined, with their values.  Reading a
\* flag that is not defined is an error of pflag's GetString.
FlagSets ==
    { [defined |-> FlagNames \ missing, uuid |-> u, exercise |-> e, track |-> t, team |-> m] :
        missing \in {{}} \cup {{n} : n \in FlagNames},
        u \in UUIDs, e \in Slugs, t \in Tracks, m \in Teams }

FlagGetString(flags, name) ==
    IF name \in flags.defined
    THEN [val |-> flags[name], err |-> NoErr]
    ELSE [val |-> "", err |-> Error("flag accessed but not defined: " \o name)]

(***************************************************************************)
(* DownloadParams.                                                         *)
(***************************************************************************)
DownloadParams(cfg, uuid, slg, track, team) ==
    [usrCfg |-> cfg, uuid |-> uuid, slug |-> slg, track |-> track, team |-> team]

\* The loop over requiredCfgs: the error for the first empty key, from index i on.
RECURSIVE CheckRequiredCfgs(_, _)
CheckRequiredCfgs(cfg, i) ==
    IF i > Len(RequiredCfgs) THEN NoErr
    ELSE IF IsEmpty(GetString(cfg, RequiredCfgs[i]))
         THEN Error("missing required UserViperConfig '" \o RequiredCfgs[i] \o "'")
         ELSE CheckRequiredCfgs(cfg, i + 1)

\* A validate that forgets the both-empty case (uuid == slug).
ParamsValidateNoEqualCheck(d) ==
    IF d = Nil THEN Error("DownloadParams is empty")
    ELSE IF d.slug # "" /\ d.uuid # "" THEN Error("need a 'slug' or a 'uuid'")
    ELSE IF d.usrCfg = Nil THEN Error("user config is empty")
    ELSE CheckRequiredCfgs(d.usrCfg, 1)

\* DownloadParams.validate
ParamsValidate(d) ==
    IF d = Nil THEN Error("DownloadParams is empty")
    ELSE IF (d.slug # "" /\ d.uuid # "") \/ d.uuid = d.slug
         THEN Error("need a 'slug' or a 'uuid'")
    ELSE IF d.usrCfg = Nil THEN Error("user config is empty")
    ELSE CheckRequiredCfgs(d.usrCfg, 1)

\* NewDownloadParamsFromExercise: returns d together with validate's verdict.
ParamsFromExercise(cfg, ex) ==
    LET d == DownloadParams(cfg, "", ex.Slug, ex.Track, "")
    IN  [params |-> d, err |-> ParamsValidate(d)]

\* NewDownloadParamsFromFlags: uuid and exercise are read and validated
\* before track and team are read; every failure returns a nil params.
ParamsFromFlags(cfg, flags) ==
    IF flags = Nil THEN [params |-> Nil, err |-> Error("flags is empty")]
    ELSE
    LET u == FlagGetString(flags, "uuid")
        e == FlagGetString(flags, "exercise")
        t == FlagGetString(flags, "track")
        m == FlagGetString(flags, "team")
        d0 == DownloadParams(cfg, u.val, e.val, "", "")
    IN  IF u.err # NoErr THEN [params |-> Nil, err |-> u.err]
        ELSE IF e.err # NoErr THEN [params |-> Nil, err |-> e.err]
        ELSE IF ParamsValidate(d0) # NoErr
             THEN [params |-> Nil,
                   err |-> Error("need an --exercise name or a solution --uuid")]
        ELSE IF t.err # NoErr THEN [params |-> Nil, err |-> t.err]
        ELSE IF m.err # NoErr THEN [params |-> Nil, err |-> m.err]
        ELSE [params |-> DownloadParams(cfg, u.val, e.val, t.val, m.val), err |-> NoErr]

(***************************************************************************)
(* The solution-record response: status and JSON body.                     *)
(***************************************************************************)
Absent == [absent |-> TRUE]

StatusOK == 200
StatusUnauthorized == 401
Statuses == {StatusOK, StatusUnauthorized, 400, 500}

RECURSIVE SeqsUpTo(_, _)
SeqsUpTo(S, n) ==
    IF n = 0 THEN {<<>>}
    ELSE LET shorter == SeqsUpTo(S, n - 1)
         IN  shorter \cup {Append(q, x) : q \in shorter, x \in S}

TrackIDLists == SeqsUpTo({"a", "b"}, MaxTrackIDs)

\* The members of the JSON "solution" object the service reads.
SolutionObjects ==
    [ID : {"", "bogus-id"},
     Team : [Slug : {<<>>, <<"t">>}],
     User : [Handle : {<<>>, <<"h">>}, IsRequester : BOOLEAN],
     Exercise : [ID : {<<"s">>}, Track : [ID : {<<"g">>}]]]

ErrorObjects ==
    [Type : {"", "track_ambiguous", "bogus"},
     Message : {"", "error-msg"},
     PossibleTrackIDs : TrackIDLists]

Bodies ==
    { [kind |-> "garbage", cause |-> c] :
        c \in {"EOF", "invalid character '<' looking for beginning of value"} }
    \cup { [kind |-> "null"] }
    \cup { [kind |-> "object", solution |-> so, error |-> eo] :
             so \in {Absent} \cup SolutionObjects, eo \in {Absent} \cup ErrorObjects }

Responses == [StatusCode : Statuses, Body : Bodies]

\* What client.Do gives back: a transport error or a response.
DoOutcomes == { [err |-> Error("dial tcp: connection refused"), res |-> Nil] }
              \cup { [err |-> NoErr, res |-> r] : r \in Responses }

ZeroSolution ==
    [ID |-> "",
     URL |-> "",
     Team |-> [Slug |-> <<>>],
     User |-> [Handle |-> <<>>, IsRequester |-> FALSE],
     Exercise |-> [ID |-> <<>>, AutoApprove |-> FALSE, Track |-> [ID |-> <<>>]],
     FileDownloadBaseURL |-> <<>>,
     Files |-> <<>>]

ZeroError == [Type |-> "", Message |-> "", PossibleTrackIDs |-> <<>>]

\* json.NewDecoder(body).Decode(&d.downloadPayload): a body that is not JSON
\* of the payload's shape is an error; the JSON value null leaves the pointer
\* nil; an object fills a fresh downloadPayload, members that are absent
\* keeping their zero values.
Decode(body) ==
    CASE body.kind = "garbage" -> [err |-> Error(body.cause), payload |-> Nil]
      [] body.kind = "null" -> [err |-> NoErr, payload |-> Nil]
      [] body.kind = "object" ->
            [err |-> NoErr,
             payload |->
                [Solution |-> IF body.solution = Absent THEN ZeroSolution ELSE body.solution,
                 Error |-> IF body.error = Absent THEN ZeroError ELSE body.error]]

\* strings.Join(elems, sep)
RECURSIVE StringsJoin(_, _)
StringsJoin(elems, sep) ==
    IF Len(elems) = 0 THEN ""
    ELSE IF Len(elems) = 1 THEN elems[1]
    ELSE elems[1] \o sep \o StringsJoin(Tail(elems), sep)

(***************************************************************************)
(* Collaborators of the api and config packages.                           *)
(***************************************************************************)
\* config.InferSiteURL: the site that belongs to an API base url.
InferSiteURL(apibaseurl) ==
    IF apibaseurl = "" \/ apibaseurl = ApiBaseURL THEN "https://exercism.io"
    ELSE IF apibaseurl = LocalBaseURL THEN "http://localhost:3000"
    ELSE apibaseurl

\* api.NewClient never fails.
NewClient(token, apibaseurl) == [client |-> [token |-> token, base |-> apibaseurl], err |-> NoErr]

\* client.NewRequest fails when the url does not parse.
NewRequest(method, url) ==
    IF url \in {BadBaseURL \o "/solutions/" \o id : id \in {"latest"} \cup UUIDs}
    THEN [req |-> Nil, err |-> Error("parse " \o url \o ": missing protocol scheme")]
    ELSE [req |-> [Method |-> method, URL |-> url, Query |-> {}, RawQuery |-> ""],
          err |-> NoErr]

(***************************************************************************)
(* Download: NewDownload, requestURL, buildQuery, validate.                *)
(***************************************************************************)
\* Download.requestURL
requestURL(d) ==
    LET id == IF d.uuid # "" THEN d.uuid ELSE "latest"
    IN  GetString(d.usrCfg, "apibaseurl") \o "/solutions/" \o id

\* url.Values.Encode: key=value pairs, sorted by key, joined by "&".
QueryKeys == <<"exercise_id", "team_id", "track_id">>

RECURSIVE EncodeFrom(_, _)
EncodeFrom(query, i) ==
    IF i > Len(QueryKeys) THEN <<>>
    ELSE LET here == {kv \in query : kv[1] = QueryKeys[i]}
         IN  (IF here = {} THEN <<>>
              ELSE <<QueryKeys[i] \o "=" \o (CHOOSE kv \in here : TRUE)[2]>>)
             \o EncodeFrom(query, i + 1)

Encode(query) == StringsJoin(EncodeFrom(query, 1), "&")

\* A buildQuery that sends the track whether or not a uuid is given.
buildQueryTrackAlways(d, req) ==
    LET q0 == req.Query
        q1 == IF d.uuid = "" THEN q0 \cup {<<"exercise_id", d.slug>>} ELSE q0
        q2 == IF d.track # "" THEN q1 \cup {<<"track_id", d.track>>} ELSE q1
        q3 == IF d.uuid = "" /\ d.team # "" THEN q2 \cup {<<"team_id", d.team>>} ELSE q2
    IN  [req EXCEPT !.Query = q3, !.RawQuery = Encode(q3)]

\* Download.buildQuery: the request with its query set.
buildQuery(d, req) ==
    LET q0 == req.Query
        q1 == IF d.uuid = "" THEN q0 \cup {<<"exercise_id", d.slug>>} ELSE q0
        q2 == IF d.uuid = "" /\ d.track # "" THEN q1 \cup {<<"track_id", d.track>>} ELSE q1
        q3 == IF d.uuid = "" /\ d.team # "" THEN q2 \cup {<<"team_id", d.team>>} ELSE q2
    IN  [req EXCEPT !.Query = q3, !.RawQuery = Encode(q3)]

\* What an operation hands back to its caller; panic is a nil dereference.
Outcome(dl, e, req, res, panic) ==
    [download |-> dl, err |-> e, request |-> req, response |-> res, panic |-> panic]

UnauthorizedMsg(siteURL) ==
    "unauthorized request. Please run the configure command. "
    \o "You can find your API token at " \o siteURL \o "/my/settings"

\* A branch that looks at the error type before it looks for a 401.
StatusBranchErrorFirst(p, req, res, payload) ==
    IF res.StatusCode # StatusOK /\ payload # Nil /\ payload.Error.Type = "track_ambiguous"
    THEN Outcome(Nil,
                 Error(payload.Error.Message \o ": "
                       \o StringsJoin(payload.Error.PossibleTrackIDs, ", ")),
                 req, res, FALSE)
    ELSE IF res.StatusCode = StatusUnauthorized
    THEN Outcome(Nil,
                 Error(UnauthorizedMsg(InferSiteURL(GetString(p.usrCfg, "apibaseurl")))),
                 req, res, FALSE)
    ELSE IF res.StatusCode # StatusOK
    THEN IF payload = Nil THEN Outcome(Nil, NoErr, req, res, TRUE)
         ELSE Outcome(Nil, Error(payload.Error.Message), req, res, FALSE)
    ELSE Outcome([DownloadParams |-> p, downloadPayload |-> payload], NoErr, req, res, FALSE)

\* The branch on the status code, after a successful decode.
StatusBranch(p, req, res, payload) ==
    IF res.StatusCode = StatusUnauthorized
    THEN Outcome(Nil,
                 Error(UnauthorizedMsg(InferSiteURL(GetString(p.usrCfg, "apibaseurl")))),
                 req, res, FALSE)
    ELSE IF res.StatusCode # StatusOK
    THEN IF payload = Nil THEN Outcome(Nil, NoErr, req, res, TRUE)
         ELSE IF payload.Error.Type = "track_ambiguous"
         THEN Outcome(Nil,
                      Error(payload.Error.Message \o ": "
                            \o StringsJoin(payload.Error.PossibleTrackIDs, ", ")),
                      req, res, FALSE)
         ELSE Outcome(Nil, Error(payload.Error.Message), req, res, FALSE)
    ELSE Outcome([DownloadParams |-> p, downloadPayload |-> payload], NoErr, req, res, FALSE)

\* A handler that answers a 401 before it decodes the body.
HandleResponseStatusFirst(p, req, res) ==
    IF res.StatusCode = StatusUnauthorized
    THEN Outcome(Nil,
                 Error(UnauthorizedMsg(InferSiteURL(GetString(p.usrCfg, "apibaseurl")))),
                 req, res, FALSE)
    ELSE LET dec == Decode(res.Body)
         IN  IF dec.err # NoErr
             THEN Outcome(Nil, Error("unable to parse API response - " \o dec.err[1]),
                          req, res, FALSE)
             ELSE StatusBranch(p, req, res, dec.payload)

\* From the response on: decode first, then look at the status.
HandleResponse(p, req, res) ==
    LET dec == Decode(res.Body)
    IN  IF dec.err # NoErr
        THEN Outcome(Nil, Error("unable to parse API response - " \o dec.err[1]),
                     req, res, FALSE)
        ELSE StatusBranch(p, req, res, dec.payload)

\* Whether NewDownload gets as far as client.Do.
SendsRequest(p) ==
    /\ ParamsValidate(p) = NoErr
    /\ NewRequest("GET", requestURL(p)).err = NoErr

\* A NewDownload that makes its client and its request before it validates
\* the params.
NewDownloadValidatesLate(p, do) ==
    IF p # Nil /\ p.usrCfg # Nil /\ NewRequest("GET", requestURL(p)).err # NoErr
    THEN Outcome(Nil, NewRequest("GET", requestURL(p)).err, Nil, Nil, FALSE)
    ELSE IF ParamsValidate(p) # NoErr THEN Outcome(Nil, ParamsValidate(p), Nil, Nil, FALSE)
    ELSE LET req == buildQuery(p, NewRequest("GET", requestURL(p)).req)
         IN  IF do.err # NoErr THEN Outcome(Nil, do.err, req, Nil, FALSE)
             ELSE HandleResponse(p, req, do.res)

\* NewDownload(params), with `do` what client.Do answers if it is reached.
NewDownload(p, do) ==
    IF ParamsValidate(p) # NoErr THEN Outcome(Nil, ParamsValidate(p), Nil, Nil, FALSE)
    ELSE
    LET c == NewClient(GetString(p.usrCfg, "token"), GetString(p.usrCfg, "apibaseurl"))
        r == NewRequest("GET", requestURL(p))
    IN  IF c.err # NoErr THEN Outcome(Nil, c.err, Nil, Nil, FALSE)
        ELSE IF r.err # NoErr THEN Outcome(Nil, r.err, Nil, Nil, FALSE)
        ELSE LET req == buildQuery(p, r.req)
             IN  IF do.err # NoErr THEN Outcome(Nil, do.err, req, Nil, FALSE)
                 ELSE HandleResponse(p, req, do.res)

\* A validate that forgets the embedded error message.
DownloadValidateIdOnly(d) ==
    IF d = Nil THEN [err |-> Error("Download is empty"), panic |-> FALSE]
    ELSE IF d.downloadPayload = Nil THEN [err |-> NoErr, panic |-> TRUE]
    ELSE IF d.downloadPayload.Solution.ID = ""
         THEN [err |-> Error("Download is empty"), panic |-> FALSE]
    ELSE [err |-> NoErr, panic |-> FALSE]

\* A validate that looks at the embedded error before the solution id.
DownloadValidateErrorFirst(d) ==
    IF d = Nil THEN [err |-> Error("Download is empty"), panic |-> FALSE]
    ELSE IF d.downloadPayload = Nil THEN [err |-> NoErr, panic |-> TRUE]
    ELSE IF d.downloadPayload.Error.Message # ""
         THEN [err |-> Error(d.downloadPayload.Error.Message), panic |-> FALSE]
    ELSE IF d.downloadPayload.Solution.ID = ""
         THEN [err |-> Error("Download is empty"), panic |-> FALSE]
    ELSE [err |-> NoErr, panic |-> FALSE]

\* Download.validate: <<>> when valid; panics on a nil payload.
DownloadValidate(d) ==
    IF d = Nil THEN [err |-> Error("Download is empty"), panic |-> FALSE]
    ELSE IF d.downloadPayload = Nil THEN [err |-> NoErr, panic |-> TRUE]
    ELSE IF d.downloadPayload.Solution.ID = ""
         THEN [err |-> Error("Download is empty"), panic |-> FALSE]
    ELSE IF d.downloadPayload.Error.Message # ""
         THEN [err |-> Error(d.downloadPayload.Error.Message), panic |-> FALSE]
    ELSE [err |-> NoErr, panic |-> FALSE]

\* A NewDownloadWriter that takes every Download that has a payload.
NewDownloadWriterNoValidate(d) ==
    IF d = Nil THEN [writer |-> Nil, err |-> Error("Download is empty"), panic |-> FALSE]
    ELSE IF d.downloadPayload = Nil THEN [writer |-> Nil, err |-> NoErr, panic |-> TRUE]
    ELSE [writer |-> [Download |-> d, fileWriter |-> Nil, downloader |-> Nil],
          err |-> NoErr, panic |-> FALSE]

\* NewDownloadWriter
NewDownloadWriter(d) ==
    LET v == DownloadValidate(d)
    IN  IF v.panic THEN [writer |-> Nil, err |-> NoErr, panic |-> TRUE]
        ELSE IF v.err # NoErr THEN [writer |-> Nil, err |-> v.err, panic |-> FALSE]
        ELSE [writer |-> [Download |-> d, fileWriter |-> Nil, downloader |-> Nil],
              err |-> NoErr, panic |-> FALSE]

(***************************************************************************)
(* Paths (path/filepath on a platform whose separator is the slash).       *)
(***************************************************************************)
Separator == "/"

TEAMS == <<"t", "e", "a", "m", "s">>
USERS == <<"u", "s", "e", "r", "s">>
DOT == <<".">>
DOTDOT == <<".", ".">>

\* The pieces of s between slashes, from index i on (cur is the piece begun).
RECURSIVE SplitFrom(_, _, _, _)
SplitFrom(s, i, cur, acc) ==
    IF i > Len(s) THEN Append(acc, cur)
    ELSE IF s[i] = Separator THEN SplitFrom(s, i + 1, <<>>, Append(acc, cur))
    ELSE SplitFrom(s, i + 1, Append(cur, s[i]), acc)

Split(s) == SplitFrom(s, 1, <<>>, <<>>)

\* strings.Join on character sequences.
RECURSIVE JoinChars(_, _)
JoinChars(elems, sep) ==
    IF Len(elems) = 0 THEN <<>>
    ELSE IF Len(elems) = 1 THEN elems[1]
    ELSE elems[1] \o sep \o JoinChars(Tail(elems), sep)

\* The lexical processing of filepath.Clean: empty and "." elements are
\* dropped, ".." removes the element before it (and is dropped at the root).
RECURSIVE CleanElems(_, _, _, _)
CleanElems(segs, i, rooted, out) ==
    IF i > Len(segs) THEN out
    ELSE IF segs[i] = <<>> \/ segs[i] = DOT THEN CleanElems(segs, i + 1, rooted, out)
    ELSE IF segs[i] = DOTDOT
         THEN IF Len(out) > 0 /\ out[Len(out)] # DOTDOT
              THEN CleanElems(segs, i + 1, rooted, SubSeq(out, 1, Len(out) - 1))
              ELSE IF rooted THEN CleanElems(segs, i + 1, rooted, out)
              ELSE CleanElems(segs, i + 1, rooted, Append(out, DOTDOT))
    ELSE CleanElems(segs, i + 1, rooted, Append(out, segs[i]))

\* filepath.Clean
Clean(path) ==
    IF path = <<>> THEN DOT
    ELSE LET rooted == path[1] = Separator
             elems == CleanElems(Split(path), 1, rooted, <<>>)
         IN  IF rooted THEN <<Separator>> \o JoinChars(elems, <<Separator>>)
             ELSE IF elems = <<>> THEN DOT
             ELSE JoinChars(elems, <<Separator>>)

\* filepath.Join: the elements from the first non-empty one on, joined and cleaned.
RECURSIVE Join(_)
Join(elems) ==
    IF Len(elems) = 0 THEN <<>>
    ELSE IF elems[1] # <<>> THEN Clean(JoinChars(elems, <<Separator>>))
    ELSE Join(Tail(elems))

\* workspace.Exercise.MetadataDir: the exercise directory, root/track/slug.
MetadataDir(e) == Join(<<e.Root, e.Track, e.Slug>>)

(***************************************************************************)
(* Download.Exercise                                                       *)
(***************************************************************************)
\* An Exercise that appends the users segment for the requester's own solutions.
ExerciseRequesterInverted(d) ==
    LET sol == d.downloadPayload.Solution
        root0 == GetString(d.DownloadParams.usrCfg, "workspace")
        root1 == IF sol.Team.Slug # <<>> THEN Join(<<root0, TEAMS, sol.Team.Slug>>) ELSE root0
        root2 == IF sol.User.IsRequester THEN Join(<<root1, USERS, sol.User.Handle>>) ELSE root1
    IN  [Root |-> root2, Track |-> sol.Exercise.Track.ID, Slug |-> sol.Exercise.ID]

\* Download.Exercise, for a Download whose payload is set.
Exercise(d) ==
    LET sol == d.downloadPayload.Solution
        root0 == GetString(d.DownloadParams.usrCfg, "workspace")
        root1 == IF sol.Team.Slug # <<>> THEN Join(<<root0, TEAMS, sol.Team.Slug>>) ELSE root0
        root2 == IF ~sol.User.IsRequester THEN Join(<<root1, USERS, sol.User.Handle>>) ELSE root1
    IN  [Root |-> root2, Track |-> sol.Exercise.Track.ID, Slug |-> sol.Exercise.ID]

(***************************************************************************)
(* The service as its callers drive it: a constructor of DownloadParams,   *)
(* then NewDownload, then NewDownloadWriter; Exercise on a Download.       *)
(***************************************************************************)
Init ==
    /\ pc = "start"
    /\ call = Nil
    /\ params = Nil
    /\ err = NoErr
    /\ request = Nil
    /\ response = Nil
    /\ download = Nil
    /\ writer = Nil
    /\ exercise = Nil
    /\ file = <<>>
    /\ slug = <<>>
    /\ sanitized = <<>>
    /\ writePath = <<>>
    /\ WriterIdle
    /\ Out = <<>>

NewDownloadParamsFromExerciseCall ==
    /\ pc = "start"
    /\ \E cfg \in {Nil} \cup UserConfigs, ex \in Exercises :
          LET r == ParamsFromExercise(cfg, ex)
          IN  /\ call' = [fn |-> "FromExercise", usrCfg |-> cfg, exercise |-> ex]
              /\ params' = r.params
              /\ err' = r.err
    /\ pc' = "params"
    /\ UNCHANGED <<request, response, download, writer, exercise>>
    /\ UNCHANGED sanVars
    /\ UNCHANGED Out
    /\ UNCHANGED wrVars

NewDownloadParamsFromFlagsCall ==
    /\ pc = "start"
    /\ \E cfg \in {Nil} \cup UserConfigs, flags \in {Nil} \cup FlagSets :
          LET r == ParamsFromFlags(cfg, flags)
          IN  /\ call' = [fn |-> "FromFlags", usrCfg |-> cfg, flags |-> flags]
              /\ params' = r.params
              /\ err' = r.err
    /\ pc' = "params"
    /\ UNCHANGED <<request, response, download, writer, exercise>>
    /\ UNCHANGED sanVars
    /\ UNCHANGED Out
    /\ UNCHANGED wrVars

NewDownloadCall ==
    /\ pc = "params"
    /\ \E do \in IF SendsRequest(params) THEN DoOutcomes
                  ELSE {o \in DoOutcomes : o.res = Nil} :
          LET r == NewDownload(params, do)
          IN  /\ download' = r.download
              /\ err' = r.err
              /\ request' = r.request
              /\ response' = r.response
              /\ pc' = IF r.panic THEN "panic" ELSE "download"
    /\ UNCHANGED <<call, params, writer, exercise>>
    /\ UNCHANGED sanVars
    /\ UNCHANGED Out
    /\ UNCHANGED wrVars

NewDownloadWriterCall ==
    /\ pc = "download"
    /\ LET r == NewDownloadWriter(download)
       IN  /\ writer' = r.writer
           /\ err' = r.err
           /\ pc' = IF r.panic THEN "panic" ELSE "writer"
    /\ UNCHANGED <<call, params, request, response, download, exercise>>
    /\ UNCHANGED sanVars
    /\ UNCHANGED Out
    /\ UNCHANGED wrVars

ExerciseCall ==
    /\ pc \in {"download", "writer"}
    /\ download # Nil
    /\ exercise = Nil
    /\ IF download.downloadPayload = Nil
       THEN pc' = "panic" /\ UNCHANGED exercise
       ELSE exercise' = Exercise(download) /\ UNCHANGED pc
    /\ UNCHANGED <<call, params, err, request, response, download, writer>>
    /\ UNCHANGED sanVars
    /\ UNCHANGED Out
    /\ UNCHANGED wrVars

Next ==
    \/ NewDownloadParamsFromExerciseCall
    \/ NewDownloadParamsFromFlagsCall
    \/ NewDownloadCall
    \/ NewDownloadWriterCall
    \/ ExerciseCall

Spec == Init /\ [][Next]_vars

(***************************************************************************)
(* Claims about DownloadParams and NewDownload, checked under Spec.        *)
(***************************************************************************)
\* The slug and uuid a constructor call supplies.
CallSlug ==
    IF call.fn = "FromExercise" THEN call.exercise.Slug
    ELSE IF call.flags # Nil /\ "exercise" \in call.flags.defined THEN call.flags.exercise
    ELSE ""

CallUUID ==
    IF call.fn = "FromFlags" /\ call.flags # Nil /\ "uuid" \in call.flags.defined
    THEN call.flags.uuid
    ELSE ""

\* Exactly one of slug and uuid is non-empty, and token, workspace and
\* apibaseurl are all non-empty.
CallInputsValid ==
    /\ (CallSlug # "") # (CallUUID # "")
    /\ call.usrCfg # Nil
    /\ \A k \in {"token", "workspace", "apibaseurl"} : Len(call.usrCfg[k]) > 0

\* C1: construction of DownloadParams succeeds if and only if exactly one of
\* slug and uuid is non-empty and the three required config keys are
\* non-empty (on the flags path: given that the flags can be read); every
\* other combination of inputs returns an error.
C1_ValidIffOneIdAndConfig ==
    pc = "params" =>
        /\ ~CallInputsValid => err # NoErr
        /\ (CallInputsValid /\ call.fn = "FromExercise") =>
              (err = NoErr /\ params # Nil)
        /\ (CallInputsValid /\ call.fn = "FromFlags" /\ call.flags.defined = FlagNames) =>
              (err = NoErr /\ params # Nil)
        /\ (CallInputsValid /\ call.fn = "FromFlags") =>
              err # Error("need an --exercise name or a solution --uuid")

C1_Witness ==
    /\ pc = "params"
    /\ call.fn = "FromFlags"
    /\ err = NoErr
    /\ params # Nil
    /\ params.uuid # ""
    /\ params.slug = ""

\* NewDownload has returned and nothing was called since.
Fetched == pc = "download" /\ writer = Nil

\* The body of the response received decodes.
Decodable == response # Nil /\ Decode(response.Body).err = NoErr

C3_DecodeBeforeStatus ==
    (response # Nil /\ response.Body.kind = "garbage") =>
        /\ pc # "panic"
        /\ download = Nil
        /\ Fetched => err = Error("unable to parse API response - " \o response.Body.cause)

C3_Witness ==
    /\ Fetched
    /\ response # Nil
    /\ response.StatusCode = StatusUnauthorized
    /\ response.Body.kind = "garbage"
    /\ err = Error("unable to parse API response - EOF")

\* C4: a decodable 401 response fails with the unauthorized message, which
\* carries the settings URL of the configured apibaseurl, whatever error
\* object the body holds.
C4_UnauthorizedOn401 ==
    (Decodable /\ response.StatusCode = StatusUnauthorized) =>
        /\ pc # "panic"
        /\ download = Nil
        /\ Fetched =>
              err = Error("unauthorized request. Please run the configure command. "
                          \o "You can find your API token at "
                          \o InferSiteURL(params.usrCfg.apibaseurl) \o "/my/settings")

C4_Witness ==
    /\ Fetched
    /\ Decodable
    /\ response.StatusCode = StatusUnauthorized
    /\ response.Body.kind = "object"
    /\ response.Body.error # Absent
    /\ response.Body.error.Type = "track_ambiguous"
    /\ params.usrCfg.apibaseurl = LocalBaseURL
    /\ err # NoErr

\* C5 (as claimed): every decodable response whose status is neither 200 nor
\* 401 makes NewDownload return an error whose message is
\* "<message>: <ids joined by ', '>" for type track_ambiguous and the bare
\* message for every other type.
C5_APIErrorMessage ==
    (Decodable /\ response.StatusCode \notin {StatusOK, StatusUnauthorized}) =>
        /\ pc # "panic"
        /\ download = Nil
        /\ Fetched =>
              LET e == Decode(response.Body).payload.Error
              IN  err = IF e.Type = "track_ambiguous"
                        THEN Error(e.Message \o ": " \o StringsJoin(e.PossibleTrackIDs, ", "))
                        ELSE Error(e.Message)

\* C6: the request goes to {apibaseurl}/solutions/{uuid or latest}; query
\* parameters are attached exactly when the uuid is empty: exercise_id
\* always, track_id and team_id exactly when track and team are non-empty.
C6_RequestURLAndQuery ==
    request # Nil =>
        /\ request.URL = params.usrCfg.apibaseurl \o "/solutions/"
                         \o (IF params.uuid # "" THEN params.uuid ELSE "latest")
        /\ (request.Query # {}) <=> (params.uuid = "")
        /\ (request.RawQuery # "") <=> (params.uuid = "")
        /\ params.uuid = "" =>
              request.Query =
                  {<<"exercise_id", params.slug>>}
                  \cup (IF params.track # "" THEN {<<"track_id", params.track>>} ELSE {})
                  \cup (IF params.team # "" THEN {<<"team_id", params.team>>} ELSE {})

C6_Witness ==
    /\ request # Nil
    /\ params.uuid # ""
    /\ params.track # ""
    /\ params.team # ""
    /\ request.Query = {}
    /\ request.URL = ApiBaseURL \o "/solutions/bogus-uuid"

\* The root Download.Exercise would give for this download were its team slug
\* present or absent and its user the requester or not.
RootFor(teamPresent, requester) ==
    Exercise([download EXCEPT
                !.downloadPayload.Solution.Team.Slug = IF teamPresent THEN <<"t">> ELSE <<>>,
                !.downloadPayload.Solution.User.IsRequester = requester]).Root

\* C7: the exercise root is the workspace, then teams/<team-slug> exactly
\* when the team slug is non-empty, then users/<handle> exactly when
\* is_requester is false (an empty handle adds no path element after
\* users); track and slug are the payload's track id and exercise id; the
\* four team x requester cases give four distinct roots.
C7_ExerciseLocation ==
    exercise # Nil =>
        LET sol == download.downloadPayload.Solution
            teamPart == IF sol.Team.Slug # <<>>
                        THEN <<"/">> \o TEAMS \o <<"/">> \o sol.Team.Slug ELSE <<>>
            userPart == IF sol.User.IsRequester THEN <<>>
                        ELSE <<"/">> \o USERS
                             \o (IF sol.User.Handle # <<>> THEN <<"/">> \o sol.User.Handle
                                 ELSE <<>>)
        IN  /\ exercise.Root = params.usrCfg.workspace \o teamPart \o userPart
            /\ exercise.Track = sol.Exercise.Track.ID
            /\ exercise.Slug = sol.Exercise.ID
            /\ Cardinality({RootFor(t, r) : t \in BOOLEAN, r \in BOOLEAN}) = 4

C7_Witness ==
    /\ exercise # Nil
    /\ download.downloadPayload.Solution.Team.Slug = <<"t">>
    /\ ~download.downloadPayload.Solution.User.IsRequester
    /\ download.downloadPayload.Solution.User.Handle = <<"h">>
    /\ exercise.Root = <<"/", "w", "/", "t", "e", "a", "m", "s", "/", "t",
                         "/", "u", "s", "e", "r", "s", "/", "h">>

(***************************************************************************)
(* Claims about the two validates, checked under Spec.                     *)
(***************************************************************************)
\* The first required config key that is empty in the call's user config.
FirstEmptyCfg ==
    CHOOSE i \in 1..Len(RequiredCfgs) :
        /\ IsEmpty(call.usrCfg[RequiredCfgs[i]])
        /\ \A j \in 1..(i - 1) : ~IsEmpty(call.usrCfg[RequiredCfgs[j]])

\* The identifiers can be read, exactly one of them is set, and a required
\* config key is empty.
OneIdAndCfgMissing ==
    /\ call.fn = "FromFlags" => (call.flags # Nil /\ {"uuid", "exercise"} \subseteq call.flags.defined)
    /\ (CallSlug # "") # (CallUUID # "")
    /\ call.usrCfg # Nil
    /\ \E k \in {"token", "workspace", "apibaseurl"} : IsEmpty(call.usrCfg[k])

\* C17: on both construction paths, exactly one of slug and uuid together
\* with an empty required config key fails with the missing-config error
\* that names the empty key, not with the missing-identifier error.
C17_MissingConfigOnBothPaths ==
    (pc = "params" /\ OneIdAndCfgMissing) =>
        err = Error("missing required UserViperConfig '"
                    \o RequiredCfgs[FirstEmptyCfg] \o "'")

\* C18: Download.validate checks the solution id before the embedded error:
\* an empty id fails with 'Download is empty' even when an error message is
\* carried, a non-empty id with a non-empty message fails with exactly that
\* message, and validate succeeds only for a non-empty id and an empty message.
C18_IdBeforeEmbeddedError ==
    (pc = "writer" /\ download # Nil) =>
        LET p == download.downloadPayload
        IN  /\ p.Solution.ID = "" => err = Error("Download is empty")
            /\ (p.Solution.ID # "" /\ p.Error.Message # "") => err = Error(p.Error.Message)
            /\ err = NoErr <=> (p.Solution.ID # "" /\ p.Error.Message = "")
            /\ err = NoErr <=> writer # Nil

\* validate has run on a payload with an empty id that carries a message, and
\* on one with an id and a message.
C18_Witness ==
    /\ pc = "writer"
    /\ download # Nil
    /\ download.downloadPayload.Solution.ID = ""
    /\ download.downloadPayload.Error.Message # ""
    /\ err = Error("Download is empty")

\* C22: NewDownload validates its params before anything else: with params
\* that are nil, that name both or neither of slug and uuid, or whose
\* config lacks a required key, it returns the validation error and no
\* Download, and no request is made, not even one that could not be built.
C22_ParamsValidatedBeforeRequest ==
    (pc \notin {"start", "params"} /\ ParamsValidate(params) # NoErr) =>
        /\ pc # "panic"
        /\ request = Nil
        /\ response = Nil
        /\ download = Nil
        /\ Fetched => err = ParamsValidate(params)

\* NewDownload has returned the validation error for params that name no
\* solution, whose api base url no request can be built from.
C22_Witness ==
    /\ Fetched
    /\ params # Nil
    /\ params.uuid = ""
    /\ params.slug = ""
    /\ params.usrCfg # Nil
    /\ GetString(params.usrCfg, "apibaseurl") = BadBaseURL
    /\ err = Error("need a 'slug' or a 'uuid'")
    /\ request = Nil

\* C24: for every response whose body decodes, the JSON value null
\* included, and for every status code, NewDownload and the
\* Download.validate of NewDownloadWriter after it end by returning a
\* value or an error: the payload pointer is never dereferenced while nil.
C24_NilPayloadNeverDereferenced ==
    Decodable => pc # "panic"

(***************************************************************************)
(* The legacy path sanitizer.                                              *)
(*                                                                         *)
(* The pattern is \A.*[/\\]<slug>-\d*/ : slugs here are plain letters, so  *)
(* the slug reads as a literal in the pattern.                             *)
(***************************************************************************)
Digits == {"0", "1", "2", "3", "4", "5", "6", "7", "8", "9"}

\* The first index from k on that holds no digit (Len(s) + 1 if none).
RECURSIVE DigitsEnd(_, _)
DigitsEnd(s, k) ==
    IF k > Len(s) THEN k
    ELSE IF s[k] \in Digits THEN DigitsEnd(s, k + 1)
    ELSE k

\* A match that wants a digit after the dash (\d+ for \d*).
MatchEndDigitRequired(s, slg, i) ==
    LET dash == i + Len(slg) + 1
    IN  IF dash + 1 > Len(s) THEN 0
        ELSE IF /\ s[i] \in {"/", "\\"}
                /\ SubSeq(s, i + 1, i + Len(slg)) = slg
                /\ s[dash] = "-"
             THEN LET k == DigitsEnd(s, dash + 1)
                  IN  IF k > dash + 1 /\ k <= Len(s) /\ s[k] = "/" THEN k ELSE 0
             ELSE 0

\* Where [/\\]<slug>-\d*/ ends when it is matched from index i; 0 if it is not.
MatchEnd(s, slg, i) ==
    LET dash == i + Len(slg) + 1
    IN  IF dash + 1 > Len(s) THEN 0
        ELSE IF /\ s[i] \in {"/", "\\"}
                /\ SubSeq(s, i + 1, i + Len(slg)) = slg
                /\ s[dash] = "-"
             THEN LET k == DigitsEnd(s, dash + 1)
                  IN  IF k <= Len(s) /\ s[k] = "/" THEN k ELSE 0
             ELSE 0

MatchEnds(s, slg) == {MatchEnd(s, slg, i) : i \in 1..Len(s)} \ {0}

SetMax(S) == CHOOSE x \in S : \A y \in S : y <= x
SetMin(S) == CHOOSE x \in S : \A y \in S : x <= y

\* strings.Replace(s, old, new, -1) for one-character old and new.
ReplaceChar(s, old, new) == [i \in 1..Len(s) |-> IF s[i] = old THEN new ELSE s[i]]

\* filepath.FromSlash
FromSlash(s) == ReplaceChar(s, "/", Separator)

\* The greedy .* makes the match end at the last place the rest can match.
StripLegacyPrefix(s, slg) ==
    IF MatchEnds(s, slg) = {} THEN s
    ELSE SubSeq(s, SetMax(MatchEnds(s, slg)) + 1, Len(s))

\* A sanitizer whose .* is not greedy: it stops at the first match.
sanitizeFirstMatch(f, slg) ==
    LET stripped == IF MatchEnds(f, slg) = {} THEN f
                    ELSE SubSeq(f, SetMin(MatchEnds(f, slg)) + 1, Len(f))
    IN  FromSlash(ReplaceChar(stripped, "\\", "/"))

\* A sanitizer that leaves the backslashes in place.
sanitizeKeepBackslashes(f, slg) == FromSlash(StripLegacyPrefix(f, slg))

\* DownloadWriter.sanitizeLegacyFilepath
sanitizeLegacyFilepath(f, slg) ==
    FromSlash(ReplaceChar(StripLegacyPrefix(f, slg), "\\", "/"))

\* fileWritePath in WriteSolutionFiles: the exercise directory joined with
\* the sanitized path.
FileWritePath(ex, f) ==
    Join(<<MetadataDir(ex), sanitizeLegacyFilepath(f, ex.Slug)>>)

(***************************************************************************)
(* The sanitizer on its own: a file name of the solution's list and a      *)
(* slug are given; the sanitizer is applied, and applied again to its own  *)
(* result; the write path of the file is computed.                         *)
(***************************************************************************)
Alphabet == {"/", "\\", "s", "-", "1", "a"}

\* File names with the shapes of the test fixture's.
LegacySlashPath == <<"/", "a", "/", "s", "-", "1", "2", "/", "a", "/", "a">>
LegacyBackslashPath == <<"\\", "a", "\\", "s", "-", "1", "2", "\\", "a", "\\", "a">>
DoubleLegacyPath == <<"/", "s", "-", "1", "/", "a", "/", "s", "-", "1", "/", "a">>
BackslashesInPath == <<"\\", "a", "\\", "a", "\\", "a", "\\", "a">>

FileNames ==
    UNION {[1..n -> Alphabet] : n \in 0..MaxPathLen}
    \cup {LegacySlashPath, LegacyBackslashPath, DoubleLegacyPath, BackslashesInPath}

SanitizerSlugs == {<<"s">>, <<"s", "a">>}

\* The exercise the files belong to.
SanitizerExercise == [Root |-> Workspace, Track |-> <<"g">>, Slug |-> slug]

InitSanitizer ==
    /\ pc = "sanitizer"
    /\ call = Nil
    /\ params = Nil
    /\ err = NoErr
    /\ request = Nil
    /\ response = Nil
    /\ download = Nil
    /\ writer = Nil
    /\ exercise = Nil
    /\ file \in FileNames
    /\ slug \in SanitizerSlugs
    /\ sanitized = <<>>
    /\ writePath = <<>>
    /\ WriterIdle
    /\ Out = <<>>

\* sanitizeLegacyFilepath on the file name, then on its own last result.
SanitizeCall ==
    /\ pc = "sanitizer"
    /\ Len(sanitized) < MaxPasses
    /\ writePath = <<>>
    /\ sanitized' = Append(sanitized,
                           sanitizeLegacyFilepath(
                               IF sanitized = <<>> THEN file ELSE sanitized[Len(sanitized)],
                               slug))
    /\ UNCHANGED <<file, slug, writePath>>
    /\ UNCHANGED flowVars
    /\ UNCHANGED Out
    /\ UNCHANGED wrVars

\* The path WriteSolutionFiles creates the file at.
WritePathStep ==
    /\ pc = "sanitizer"
    /\ Len(sanitized) = 1
    /\ writePath = <<>>
    /\ writePath' = <<FileWritePath(SanitizerExercise, file)>>
    /\ UNCHANGED <<file, slug, sanitized>>
    /\ UNCHANGED flowVars
    /\ UNCHANGED Out
    /\ UNCHANGED wrVars

NextSanitizer == SanitizeCall \/ WritePathStep

SpecSanitizer == InitSanitizer /\ [][NextSanitizer]_vars

(***************************************************************************)
(* Claims about the sanitizer, checked under SpecSanitizer.                *)
(***************************************************************************)
NoBackslash(s) == \A i \in 1..Len(s) : s[i] # "\\"
NoSlash(s) == \A i \in 1..Len(s) : s[i] # "/"

\* s holds a directory segment <slg>-<digits> that follows a separator and
\* is closed by a forward slash.
HasLegacySegment(s, slg) ==
    \E i \in 1..Len(s), j \in 1..Len(s) :
        /\ j >= i + Len(slg) + 2
        /\ s[i] \in {"/", "\\"}
        /\ SubSeq(s, i + 1, i + Len(slg)) = slg
        /\ s[i + Len(slg) + 1] = "-"
        /\ \A k \in (i + Len(slg) + 2)..(j - 1) : s[k] \in Digits
        /\ s[j] = "/"

C9_IdempotentOnSlashPaths ==
    NoBackslash(file) =>
        /\ \A i \in 1..Len(sanitized) : sanitized[i] = sanitized[1]
        /\ (Len(sanitized) >= 1 /\ ~HasLegacySegment(file, slug)) => sanitized[1] = file

C9_Witness ==
    /\ file = DoubleLegacyPath
    /\ slug = <<"s">>
    /\ sanitized = << <<"a">>, <<"a">> >>

IsNonEmpty(e) == e # <<>>

\* C10: the sanitized path is what is left of the file name after the
\* prefix is stripped, with every backslash turned into a forward slash; the
\* file is written inside the exercise directory, nested by the elements
\* that either separator delimits (a leading separator adds none), and no
\* written name holds a backslash.
C10_BackslashesRewritten ==
    writePath # <<>> =>
        LET san == sanitized[1]
            stripped == SubSeq(file, Len(file) - Len(san) + 1, Len(file))
            dir == <<"/", "w", "/", "g", "/">> \o slug
            elems == SelectSeq(Split(san), IsNonEmpty)
        IN  /\ Len(san) <= Len(file)
            /\ \A i \in 1..Len(san) :
                  san[i] = IF stripped[i] = "\\" THEN "/" ELSE stripped[i]
            /\ NoBackslash(writePath[1])
            /\ (\A i \in 1..Len(elems) : elems[i] \notin {DOT, DOTDOT}) =>
                  writePath[1] = IF elems = <<>> THEN dir
                              ELSE dir \o <<"/">> \o JoinChars(elems, <<"/">>)

C10_Witness ==
    /\ file = BackslashesInPath
    /\ slug = <<"s">>
    /\ writePath = << <<"/", "w", "/", "g", "/", "s", "/", "a", "/", "a", "/", "a", "/", "a">> >>

\* The indices of s where a segment <separator><slg>-<zero or more
\* digits> is closed by a forward slash.
LegacySegmentEnds(s, slg) ==
    {j \in 1..Len(s) :
        \E i \in 1..Len(s) :
            /\ j >= i + Len(slg) + 2
            /\ s[i] \in {"/", "\\"}
            /\ SubSeq(s, i + 1, i + Len(slg)) = slg
            /\ s[i + Len(slg) + 1] = "-"
            /\ \A k \in (i + Len(slg) + 2)..(j - 1) : s[k] \in Digits
            /\ s[j] = "/"}

\* C28: the prefix match is greedy, wants a separator before the slug and
\* a forward slash after the digits: everything up to and including the
\* last <separator><slug>-<zero or more digits>/ is stripped, so that of two
\* such segments only what follows the second is kept and <slug>-/ without
\* digits matches too; a path that starts with <slug>-<digits>/ and has no
\* separator before the slug is not stripped.
C28_GreedyPrefixMatch ==
    Len(sanitized) >= 1 =>
        LET ends == LegacySegmentEnds(file, slug)
            kept == IF ends = {} THEN file
                    ELSE SubSeq(file, SetMax(ends) + 1, Len(file))
        IN  /\ sanitized[1] = ReplaceChar(kept, "\\", "/")
            /\ (file = DoubleLegacyPath /\ slug = <<"s">>) => sanitized[1] = <<"a">>
            /\ (file = <<"/", "s", "-", "/", "a">> /\ slug = <<"s">>) => sanitized[1] = <<"a">>
            /\ (file = <<"s", "-", "1", "/", "a">> /\ slug = <<"s">>) => sanitized[1] = file

\* A path with two legacy segments went through the sanitizer once: what
\* follows the second segment is left.
C28_Witness ==
    /\ file = DoubleLegacyPath
    /\ slug = <<"s">>
    /\ Len(sanitized) = 1
    /\ sanitized[1] = <<"a">>
    /\ LegacySegmentEnds(file, slug) = {5, 11}

(***************************************************************************)
(* The filesystem under os.MkdirAll, os.Create and io.Copy.  A file's      *)
(* content is the sequence of chunks written to it.  The root directory    *)
(* always exists and is not listed in dirs.                                *)
(***************************************************************************)
RootDir == <<Separator>>

\* The index of the last separator of path (0 if there is none).
LastSeparator(path) ==
    IF \E i \in 1..Len(path) : path[i] = Separator
    THEN SetMax({i \in 1..Len(path) : path[i] = Separator})
    ELSE 0

\* filepath.Dir: all but the last element of path, cleaned.
Dir(path) == Clean(SubSeq(path, 1, LastSeparator(path)))

\* path and the directories above it, the root left out.
RECURSIVE Ancestors(_)
Ancestors(path) ==
    IF path = RootDir \/ path = DOT THEN {}
    ELSE {path} \cup Ancestors(Dir(path))

\* path lies under dir (or is dir).
IsUnder(path, dir) == dir \in Ancestors(path) \/ dir = RootDir

IsFile(f, path) == \E e \in f.files : e.path = path
IsDir(f, path) == path = RootDir \/ path \in f.dirs
ContentOf(f, path) == (CHOOSE e \in f.files : e.path = path).content

\* The files of f with path holding content.
WithFile(f, path, content) ==
    [f EXCEPT !.files = {e \in f.files : e.path # path}
                         \cup {[path |-> path, content |-> content]}]

\* A MkdirAll that removes the files that stand where a directory has to be.
MkdirAllOverFiles(f, path) ==
    [fs |-> [files |-> {e \in f.files : e.path \notin Ancestors(path)},
             dirs |-> f.dirs \cup Ancestors(path)],
     err |-> NoErr]

\* os.MkdirAll: fails when an element of path is a file; otherwise path and
\* the missing directories above it are created.
MkdirAll(f, path) ==
    IF \E q \in Ancestors(path) : IsFile(f, q)
    THEN [fs |-> f, err |-> Error("mkdir: not a directory")]
    ELSE [fs |-> [f EXCEPT !.dirs = f.dirs \cup Ancestors(path)], err |-> NoErr]

\* An os.Create that opens an existing file without truncating it.
CreateNoTruncate(f, path) ==
    IF IsDir(f, path) THEN [fs |-> f, err |-> Error("open: is a directory")]
    ELSE IF ~IsDir(f, Dir(path))
         THEN [fs |-> f, err |-> Error("open: no such file or directory")]
    ELSE IF IsFile(f, path) THEN [fs |-> f, err |-> NoErr]
    ELSE [fs |-> WithFile(f, path, <<>>), err |-> NoErr]

\* An os.Create that refuses a file that exists.
CreateExclusive(f, path) ==
    IF IsDir(f, path) THEN [fs |-> f, err |-> Error("open: is a directory")]
    ELSE IF ~IsDir(f, Dir(path))
         THEN [fs |-> f, err |-> Error("open: no such file or directory")]
    ELSE IF IsFile(f, path) THEN [fs |-> f, err |-> Error("open: file exists")]
    ELSE [fs |-> WithFile(f, path, <<>>), err |-> NoErr]

\* os.Create: fails on a directory or under a missing directory; otherwise
\* the file exists afterwards and is empty (an existing file is truncated).
Create(f, path) ==
    IF IsDir(f, path) THEN [fs |-> f, err |-> Error("open: is a directory")]
    ELSE IF ~IsDir(f, Dir(path))
         THEN [fs |-> f, err |-> Error("open: no such file or directory")]
    ELSE [fs |-> WithFile(f, path, <<>>), err |-> NoErr]

\* io.Copy(f, res.Body): the first n chunks of body are appended to the file.
Copy(f, path, body, n) ==
    WithFile(f, path, ContentOf(f, path) \o SubSeq(body, 1, n))

(***************************************************************************)
(* Download.requestFile                                                    *)
(***************************************************************************)
Letters == {"a", "b", "f", "h", "s"}

\* The index of the first character of u that no scheme can hold.
RECURSIVE SchemeEnd(_, _)
SchemeEnd(u, i) ==
    IF i > Len(u) THEN i
    ELSE IF u[i] \in Letters \/ (i > 1 /\ u[i] \in Digits \cup {"+", "-", "."})
         THEN SchemeEnd(u, i + 1)
    ELSE i

\* url.ParseRequestURI: the text has to start with a slash or with a scheme.
ParseRequestURI(u) ==
    IF u = <<>> THEN [url |-> u, err |-> Error("parse: empty url")]
    ELSE IF u[1] = "/" THEN [url |-> u, err |-> NoErr]
    ELSE LET k == SchemeEnd(u, 1)
         IN  IF k > 1 /\ k <= Len(u) /\ u[k] = ":" THEN [url |-> u, err |-> NoErr]
             ELSE [url |-> u, err |-> Error("parse: invalid URI for request")]

\* A requestFile that skips an empty file name without a word.
requestFileSkipsEmptyName(d, filename, do) ==
    IF filename = <<>>
    THEN [res |-> Nil, err |-> NoErr, sent |-> FALSE]
    ELSE LET parsed == ParseRequestURI(d.downloadPayload.Solution.FileDownloadBaseURL
                                       \o filename)
         IN  IF parsed.err # NoErr THEN [res |-> Nil, err |-> parsed.err, sent |-> FALSE]
             ELSE IF do.err # NoErr THEN [res |-> Nil, err |-> do.err, sent |-> TRUE]
             ELSE IF do.res.StatusCode # StatusOK \/ do.res.ContentLength = "0"
                  THEN [res |-> Nil, err |-> NoErr, sent |-> TRUE]
             ELSE [res |-> do.res, err |-> NoErr, sent |-> TRUE]

\* A requestFile that takes every 200 response, whatever its length.
requestFileAnyLength(d, filename, do) ==
    IF filename = <<>>
    THEN [res |-> Nil, err |-> Error("filename is empty"), sent |-> FALSE]
    ELSE LET parsed == ParseRequestURI(d.downloadPayload.Solution.FileDownloadBaseURL
                                       \o filename)
         IN  IF parsed.err # NoErr THEN [res |-> Nil, err |-> parsed.err, sent |-> FALSE]
             ELSE IF do.err # NoErr THEN [res |-> Nil, err |-> do.err, sent |-> TRUE]
             ELSE IF do.res.StatusCode # StatusOK
                  THEN [res |-> Nil, err |-> NoErr, sent |-> TRUE]
             ELSE [res |-> do.res, err |-> NoErr, sent |-> TRUE]

\* Download.requestFile: do is what client.Do gives back if it is called;
\* sent tells whether it was.
requestFile(d, filename, do) ==
    IF filename = <<>>
    THEN [res |-> Nil, err |-> Error("filename is empty"), sent |-> FALSE]
    ELSE LET parsed == ParseRequestURI(d.downloadPayload.Solution.FileDownloadBaseURL
                                       \o filename)
         IN  IF parsed.err # NoErr THEN [res |-> Nil, err |-> parsed.err, sent |-> FALSE]
             ELSE IF do.err # NoErr THEN [res |-> Nil, err |-> do.err, sent |-> TRUE]
             ELSE IF do.res.StatusCode # StatusOK
                  THEN [res |-> Nil, err |-> NoErr, sent |-> TRUE]
             ELSE IF do.res.ContentLength = "0"
                  THEN [res |-> Nil, err |-> NoErr, sent |-> TRUE]
             ELSE [res |-> do.res, err |-> NoErr, sent |-> TRUE]

\* requestFile of the service's other version (the second file of
\* src/service/download_test.go): the file name is not looked at.
requestFileAnyName(d, filename, do) ==
    LET parsed == ParseRequestURI(d.downloadPayload.Solution.FileDownloadBaseURL
                                  \o filename)
    IN  IF parsed.err # NoErr THEN [res |-> Nil, err |-> parsed.err, sent |-> FALSE]
        ELSE IF do.err # NoErr THEN [res |-> Nil, err |-> do.err, sent |-> TRUE]
        ELSE IF do.res.StatusCode # StatusOK
             THEN [res |-> Nil, err |-> NoErr, sent |-> TRUE]
        ELSE IF do.res.ContentLength = "0"
             THEN [res |-> Nil, err |-> NoErr, sent |-> TRUE]
        ELSE [res |-> do.res, err |-> NoErr, sent |-> TRUE]

\* d.downloader.requestFile (d.requester.requestFile in the other version):
\* the method of the Download behind the interface; the other version's
\* Download is the one whose params carry fromFlags and fromExercise.
downloaderRequestFile(d, filename, do) ==
    IF "fromExercise" \in DOMAIN d.DownloadParams
    THEN requestFileAnyName(d, filename, do)
    ELSE requestFile(d, filename, do)

(***************************************************************************)
(* The body of WriteSolutionFiles' loop after the request.                 *)
(***************************************************************************)
\* What the operating system may refuse, besides what the filesystem's own
\* state makes it refuse.
Faults == {"none", "mkdir", "create", "copy"}

\* A loop body that opens the destination without truncating it.
WriteFileNoTruncate(f, path, body, fault) ==
    LET mk == IF fault = "mkdir"
              THEN [fs |-> f, err |-> Error("mkdir: permission denied")]
              ELSE MkdirAll(f, Dir(path))
        cr == IF fault = "create"
              THEN [fs |-> mk.fs, err |-> Error("open: permission denied")]
              ELSE CreateNoTruncate(mk.fs, path)
    IN  IF mk.err # NoErr THEN [fs |-> mk.fs, err |-> mk.err, opened |-> FALSE]
        ELSE IF cr.err # NoErr THEN [fs |-> cr.fs, err |-> cr.err, opened |-> FALSE]
        ELSE IF fault = "copy"
             THEN [fs |-> Copy(cr.fs, path, body, Len(body) - 1),
                   err |-> Error("write: no space left on device"), opened |-> TRUE]
        ELSE [fs |-> Copy(cr.fs, path, body, Len(body)), err |-> NoErr, opened |-> TRUE]

\* A loop body that removes the destination when the copy fails.
WriteFileRemovesPartial(f, path, body, fault) ==
    LET mk == IF fault = "mkdir"
              THEN [fs |-> f, err |-> Error("mkdir: permission denied")]
              ELSE MkdirAll(f, Dir(path))
        cr == IF fault = "create"
              THEN [fs |-> mk.fs, err |-> Error("open: permission denied")]
              ELSE Create(mk.fs, path)
    IN  IF mk.err # NoErr THEN [fs |-> mk.fs, err |-> mk.err, opened |-> FALSE]
        ELSE IF cr.err # NoErr THEN [fs |-> cr.fs, err |-> cr.err, opened |-> FALSE]
        ELSE IF fault = "copy"
             THEN [fs |-> [cr.fs EXCEPT !.files = {e \in @ : e.path # path}],
                   err |-> Error("write: no space left on device"), opened |-> TRUE]
        ELSE [fs |-> Copy(cr.fs, path, body, Len(body)), err |-> NoErr, opened |-> TRUE]

\* A loop body that does not look at the error of the copy.
WriteFileIgnoresCopyError(f, path, body, fault) ==
    LET mk == IF fault = "mkdir"
              THEN [fs |-> f, err |-> Error("mkdir: permission denied")]
              ELSE MkdirAll(f, Dir(path))
        cr == IF fault = "create"
              THEN [fs |-> mk.fs, err |-> Error("open: permission denied")]
              ELSE Create(mk.fs, path)
    IN  IF mk.err # NoErr THEN [fs |-> mk.fs, err |-> mk.err, opened |-> FALSE]
        ELSE IF cr.err # NoErr THEN [fs |-> cr.fs, err |-> cr.err, opened |-> FALSE]
        ELSE IF fault = "copy"
             THEN [fs |-> Copy(cr.fs, path, body, Len(body) - 1),
                   err |-> NoErr, opened |-> TRUE]
        ELSE [fs |-> Copy(cr.fs, path, body, Len(body)), err |-> NoErr, opened |-> TRUE]

\* MkdirAll of the directory of fileWritePath, Create, Copy of the body:
\* the filesystem afterwards, the error, and whether the file was opened.
WriteFile(f, path, body, fault) ==
    LET mk == IF fault = "mkdir"
              THEN [fs |-> f, err |-> Error("mkdir: permission denied")]
              ELSE MkdirAll(f, Dir(path))
        cr == IF fault = "create"
              THEN [fs |-> mk.fs, err |-> Error("open: permission denied")]
              ELSE Create(mk.fs, path)
    IN  IF mk.err # NoErr THEN [fs |-> mk.fs, err |-> mk.err, opened |-> FALSE]
        ELSE IF cr.err # NoErr THEN [fs |-> cr.fs, err |-> cr.err, opened |-> FALSE]
        ELSE IF fault = "copy"
             THEN [fs |-> Copy(cr.fs, path, body, Len(body) - 1),
                   err |-> Error("write: no space left on device"), opened |-> TRUE]
        ELSE [fs |-> Copy(cr.fs, path, body, Len(body)), err |-> NoErr, opened |-> TRUE]

(***************************************************************************)
(* The DownloadWriter at work: a valid Download with a file list, a file   *)
(* server and a filesystem are given.                                      *)
(***************************************************************************)
\* File names of the solution's list: plain ones, one with a leading
\* slash, one below a legacy numeric-suffix directory, one that climbs out
\* of its directory, and the empty one.
PlainFile == <<"a">>
OtherFile == <<"b">>
LeadingSlashFile == <<"/", "a">>
LegacySubdirFile == <<"/", "s", "-", "1", "/", "a", "/", "b">>
ParentFile == <<".", ".", "/", "a">>
EmptyFileName == <<>>

WriterFileNames ==
    {PlainFile, OtherFile, LeadingSlashFile, LegacySubdirFile, ParentFile, EmptyFileName}

FileLists == SeqsUpTo(WriterFileNames, MaxFiles)

GoodFileBase == <<"h", ":", "/", "/", "f", "/">>
BogusFileBase == <<"b">>

WriterConfig == [token |-> "abc123", workspace |-> Workspace, apibaseurl |-> ApiBaseURL]

\* The Downloads a DownloadWriter is made from: the payload is valid.
WriterDownloads ==
    { [DownloadParams |-> DownloadParams(WriterConfig, "", "bogus-exercise", "", ""),
       downloadPayload |->
          [Solution |->
              [ID |-> "bogus-id",
               URL |-> "",
               Team |-> [Slug |-> <<>>],
               User |-> [Handle |-> <<"h">>, IsRequester |-> TRUE],
               Exercise |-> [ID |-> <<"s">>, AutoApprove |-> FALSE,
                             Track |-> [ID |-> <<"g">>]],
               FileDownloadBaseURL |-> base,
               Files |-> files],
           Error |-> ZeroError]] :
        base \in {GoodFileBase, BogusFileBase}, files \in FileLists }

\* What the file server may answer for a file: the file (its body names
\* it), a missing file, or a file of length zero.
FileResponses(filename) ==
    { [StatusCode |-> StatusOK, ContentLength |-> "1", Body |-> <<filename>>],
      [StatusCode |-> 404, ContentLength |-> "9", Body |-> <<"not found">>],
      [StatusCode |-> StatusOK, ContentLength |-> "0", Body |-> <<>>] }

Servers(files) ==
    { srv \in [1..Len(files) -> UNION {FileResponses(f) : f \in WriterFileNames}] :
        \A i \in 1..Len(files) : srv[i] \in FileResponses(files[i]) }

\* The exercise directory of the WriterDownloads.
ExerciseDir == <<"/", "w", "/", "g", "/", "s">>

OldContent == <<"old">>

\* A filesystem that holds files where downloads may land.
PopulatedFS ==
    [files |-> { [path |-> ExerciseDir \o <<"/", "a">>, content |-> OldContent],
                 [path |-> ExerciseDir \o <<"/", "b">>, content |-> OldContent],
                 [path |-> <<"/", "w", "/", "g", "/", "a">>, content |-> OldContent] },
     dirs |-> Ancestors(ExerciseDir)]

StartingFilesystems == {EmptyFS, PopulatedFS}

\* The mock of the tests, a fileWriter that is not the payload's metadata.
MockWriter == [mock |-> TRUE]

\* The fileWriter field as the maker of the DownloadWriter leaves it: nil
\* from NewDownloadWriter; the tests set the mock, on their fixture, whose
\* file_download_base_url is no url.
InjectedFileWriters(d) ==
    IF d.downloadPayload.Solution.FileDownloadBaseURL = BogusFileBase
    THEN {Nil, MockWriter}
    ELSE {Nil}

InitWriter ==
    /\ pc = "writer"
    /\ call = Nil
    /\ download \in WriterDownloads
    /\ params = download.DownloadParams
    /\ err = NoErr
    /\ request = Nil
    /\ response = Nil
    /\ \E fw \in InjectedFileWriters(download) :
          writer = [NewDownloadWriter(download).writer EXCEPT !.fileWriter = fw]
    /\ exercise = Nil
    /\ file = <<>>
    /\ slug = <<>>
    /\ sanitized = <<>>
    /\ writePath = <<>>
    /\ fs0 \in StartingFilesystems
    /\ fs = fs0
    /\ server \in Servers(download.downloadPayload.Solution.Files)
    /\ idx = 0
    /\ requested = <<>>
    /\ done = <<>>
    /\ run = "first"
    /\ open = {}
    /\ deferred = <<>>
    /\ metaWrites = <<>>
    /\ Out = <<>>

\* The file list of the writer's Download.
Files == writer.Download.downloadPayload.Solution.Files

SeqRange(q) == {q[i] : i \in 1..Len(q)}

\* The response body or the destination file of an entry, as a thing that
\* is open until it is closed.
Handle(kind, i) == [kind |-> kind, entry |-> i, run |-> run]

\* Download.metadata: the ExerciseMetadata projected from the payload.
metadata(d) ==
    LET sol == d.downloadPayload.Solution
    IN  [AutoApprove |-> sol.Exercise.AutoApprove,
         Track |-> sol.Exercise.Track.ID,
         Team |-> sol.Team.Slug,
         Exercise |-> sol.Exercise.ID,
         ID |-> sol.ID,
         URL |-> sol.URL,
         Handle |-> sol.User.Handle,
         IsRequester |-> sol.User.IsRequester]

\* WriteSolutionFiles is entered, for the first time or once more after it
\* has returned: the downloader defaults to the Download, the loop starts
\* at the first entry; with an empty list it returns nil at once.
WriteSolutionFilesCall ==
    /\ pc = "writer" \/ (pc = "returned" /\ run = "first")
    /\ run' = IF pc = "writer" THEN "first" ELSE IF err # NoErr THEN "retry" ELSE "again"
    /\ writer' = [writer EXCEPT !.downloader = IF @ = Nil THEN writer.Download ELSE @]
    /\ err' = NoErr
    /\ response' = Nil
    /\ requested' = <<>>
    /\ done' = <<>>
    /\ deferred' = <<>>
    /\ IF Files = <<>>
       THEN pc' = "returned" /\ idx' = 0
       ELSE pc' = "request" /\ idx' = 1
    /\ UNCHANGED <<call, params, request, download, exercise>>
    /\ UNCHANGED sanVars
    /\ UNCHANGED Out
    /\ UNCHANGED <<fs, fs0, server, open, metaWrites>>

\* One pass through the head of the loop: requestFile for the entry at idx.
\* An error returns it (the deferred Close calls run); a nil response moves
\* on to the next entry, or returns nil after the last; a response is kept
\* and its Close deferred.
RequestFileStep ==
    /\ pc = "request"
    /\ \E do \in { [err |-> Error("dial tcp: connection refused"), res |-> Nil],
                   [err |-> NoErr, res |-> server[idx]] } :
          LET r == downloaderRequestFile(writer.downloader, Files[idx], do)
              body == Handle("body", idx)
              opened == IF r.sent /\ do.err = NoErr THEN open \cup {body} ELSE open
          IN  /\ requested' = IF r.sent THEN Append(requested, idx) ELSE requested
              /\ IF r.err # NoErr
                 THEN /\ pc' = "returned"
                      /\ err' = r.err
                      /\ open' = opened \ SeqRange(deferred)
                      /\ deferred' = <<>>
                      /\ UNCHANGED <<response, idx, done>>
                 ELSE IF r.res = Nil
                 THEN /\ done' = Append(done, "skipped")
                      /\ IF idx = Len(Files)
                         THEN /\ pc' = "returned"
                              /\ open' = opened \ SeqRange(deferred)
                              /\ deferred' = <<>>
                              /\ UNCHANGED idx
                         ELSE /\ pc' = "request"
                              /\ idx' = idx + 1
                              /\ open' = opened
                              /\ UNCHANGED deferred
                      /\ UNCHANGED <<err, response>>
                 ELSE /\ pc' = "write"
                      /\ response' = r.res
                      /\ open' = opened
                      /\ deferred' = Append(deferred, body)
                      /\ UNCHANGED <<err, idx, done>>
    /\ UNCHANGED <<call, params, request, download, writer, exercise>>
    /\ UNCHANGED sanVars
    /\ UNCHANGED Out
    /\ UNCHANGED <<fs, fs0, server, run, metaWrites>>

\* The rest of the pass for a response that was kept: the write path, the
\* directories, the file and the copy.  An error returns it; otherwise the
\* loop goes on, or WriteSolutionFiles returns nil after the last entry.
WriteFileStep ==
    /\ pc = "write"
    /\ \E fault \in Faults :
          LET path == FileWritePath(Exercise(writer.Download), Files[idx])
              w == WriteFile(fs, path, response.Body, fault)
              fh == Handle("file", idx)
              opened == IF w.opened THEN open \cup {fh} ELSE open
              defs == IF w.opened THEN Append(deferred, fh) ELSE deferred
          IN  /\ fs' = w.fs
              /\ err' = w.err
              /\ done' = IF w.err = NoErr THEN Append(done, "written") ELSE done
              /\ IF w.err # NoErr \/ idx = Len(Files)
                 THEN /\ pc' = "returned"
                      /\ open' = opened \ SeqRange(defs)
                      /\ deferred' = <<>>
                      /\ UNCHANGED idx
                 ELSE /\ pc' = "request"
                      /\ idx' = idx + 1
                      /\ open' = opened
                      /\ deferred' = defs
    /\ response' = Nil
    /\ UNCHANGED <<call, params, request, download, writer, exercise>>
    /\ UNCHANGED sanVars
    /\ UNCHANGED Out
    /\ UNCHANGED <<fs0, server, requested, run, metaWrites>>

\* A WriteMetadata that always writes the payload's metadata.
WriteMetadataIgnoresInjected(w, writeErr) ==
    LET fw == metadata(w.Download)
    IN  [writer |-> [w EXCEPT !.fileWriter = fw],
         write |-> [by |-> fw, dir |-> MetadataDir(Exercise(w.Download)),
                    result |-> writeErr],
         err |-> writeErr]

\* DownloadWriter.WriteMetadata: the fileWriter defaults to the payload's
\* metadata and gets one Write call for the exercise's metadata directory;
\* writeErr is what that Write returns, and it is returned.
WriteMetadata(w, writeErr) ==
    LET fw == IF w.fileWriter = Nil THEN metadata(w.Download) ELSE w.fileWriter
    IN  [writer |-> [w EXCEPT !.fileWriter = fw],
         write |-> [by |-> fw, dir |-> MetadataDir(Exercise(w.Download)),
                    result |-> writeErr],
         err |-> writeErr]

\* WriteMetadata is called, on a fresh writer or after a WriteSolutionFiles
\* that returned nil.
WriteMetadataCall ==
    /\ pc = "writer" \/ (pc = "returned" /\ err = NoErr)
    /\ \E writeErr \in {NoErr, Error("write metadata: permission denied")} :
          LET r == WriteMetadata(writer, writeErr)
          IN  /\ writer' = r.writer
              /\ metaWrites' = Append(metaWrites, r.write)
              /\ err' = r.err
    /\ pc' = "metadata"
    /\ UNCHANGED <<call, params, request, response, download, exercise>>
    /\ UNCHANGED sanVars
    /\ UNCHANGED Out
    /\ UNCHANGED <<fs, fs0, server, idx, requested, done, run, open, deferred>>

NextWriter ==
    \/ WriteSolutionFilesCall
    \/ RequestFileStep
    \/ WriteFileStep
    \/ WriteMetadataCall

SpecWriter == InitWriter /\ [][NextWriter]_vars

(***************************************************************************)
(* Claims about WriteSolutionFiles and WriteMetadata, checked under        *)
(* SpecWriter.                                                             *)
(***************************************************************************)
\* Where entry i of the file list is written.
Dest(i) == FileWritePath(Exercise(writer.Download), Files[i])

\* The server has entry i: status 200 and a Content-Length other than "0".
Fetchable(i) ==
    server[i].StatusCode = StatusOK /\ server[i].ContentLength # "0"

\* The last entry the server has whose destination is path.
LastFetchable(path) ==
    SetMax({j \in 1..Len(Files) : Fetchable(j) /\ Dest(j) = path})

\* WriteSolutionFiles has returned nil.
Completed == pc = "returned" /\ err = NoErr

\* The entry was skipped and nothing came to be at its destination through it.
SkippedSilently(i) ==
    /\ done[i] = "skipped"
    /\ IsFile(fs, Dest(i)) =>
          \/ IsFile(fs0, Dest(i))
          \/ \E j \in 1..Len(Files) : Fetchable(j) /\ Dest(j) = Dest(i)

\* C11 as stated: after a WriteSolutionFiles without fatal error, every
\* entry answered with a non-200 status or with Content-Length "0" was
\* skipped and left nothing at its destination, and every other entry's
\* destination holds exactly the body fetched for that entry.
C11_EveryFetchedBodyAtItsDestination ==
    Completed =>
        /\ Len(done) = Len(Files)
        /\ \A i \in 1..Len(Files) :
              IF Fetchable(i)
              THEN /\ done[i] = "written"
                   /\ IsFile(fs, Dest(i))
                   /\ ContentOf(fs, Dest(i)) = server[i].Body
              ELSE SkippedSilently(i)

\* C11, amended: as above, but the destination of a fetched entry holds the
\* body of the last fetched entry that has this destination.
C11_SkippedSilentlyOthersWritten ==
    Completed =>
        /\ Len(done) = Len(Files)
        /\ \A i \in 1..Len(Files) :
              IF Fetchable(i)
              THEN /\ done[i] = "written"
                   /\ IsFile(fs, Dest(i))
                   /\ ContentOf(fs, Dest(i)) = server[LastFetchable(Dest(i))].Body
              ELSE SkippedSilently(i)

\* A run that skipped its first entry for its zero length, went on and
\* wrote the second.
C11_Witness ==
    /\ Completed
    /\ run = "first"
    /\ fs0 = EmptyFS
    /\ Files = <<PlainFile, OtherFile>>
    /\ server[1].StatusCode = StatusOK /\ server[1].ContentLength = "0"
    /\ done = <<"skipped", "written">>
    /\ ~IsFile(fs, Dest(1))
    /\ ContentOf(fs, Dest(2)) = <<OtherFile>>

\* WriteSolutionFiles has returned an error; idx is the entry it failed at.
Failed == pc = "returned" /\ err # NoErr

\* The last entry before k that was written to path in this invocation.
LastWrittenBefore(path, k) ==
    SetMax({j \in 1..(k - 1) : done[j] = "written" /\ Dest(j) = path})

\* The entries before the failing one were all dealt with, no later entry
\* was requested, and in a first invocation nothing but the destinations of
\* the entries up to the failing one has changed.
AbortedAtFirstError ==
    /\ Len(done) = idx - 1
    /\ \A k \in SeqRange(requested) : k <= idx
    /\ run = "first" =>
          \A e \in fs.files :
              e \in fs0.files \/ \E i \in 1..idx : Fetchable(i) /\ Dest(i) = e.path

\* Nothing is removed: what was there before and what was written is
\* there, and so is the file of a copy that failed.
NothingRolledBack ==
    /\ \A e \in fs0.files : IsFile(fs, e.path)
    /\ fs0.dirs \subseteq fs.dirs
    /\ \A i \in 1..(idx - 1) : done[i] = "written" => IsFile(fs, Dest(i))
    /\ err = Error("write: no space left on device") => IsFile(fs, Dest(idx))

\* C12 as stated: the first fatal per-file error aborts WriteSolutionFiles
\* and is returned; no later entry is requested or written, every file
\* written in full before the failure holds its downloaded content, and
\* nothing is rolled back.
C12_WrittenFilesKeepContent ==
    Failed =>
        /\ AbortedAtFirstError
        /\ NothingRolledBack
        /\ \A i \in 1..(idx - 1) :
              done[i] = "written" =>
                 /\ IsFile(fs, Dest(i))
                 /\ ContentOf(fs, Dest(i)) = server[LastWrittenBefore(Dest(i), idx)].Body

\* C12, amended: as above, for the files whose path is not the destination
\* of the failing entry.
C12_AbortKeepsOtherFiles ==
    Failed =>
        /\ AbortedAtFirstError
        /\ NothingRolledBack
        /\ \A i \in 1..(idx - 1) :
              (done[i] = "written" /\ Dest(i) # Dest(idx)) =>
                 /\ IsFile(fs, Dest(i))
                 /\ ContentOf(fs, Dest(i)) = server[LastWrittenBefore(Dest(i), idx)].Body

\* The first entry was written, the copy of the second failed: the first
\* file has its content, the second is there, cut short.
C12_Witness ==
    /\ Failed
    /\ run = "first"
    /\ fs0 = EmptyFS
    /\ Files = <<PlainFile, OtherFile>>
    /\ idx = 2
    /\ done = <<"written">>
    /\ err = Error("write: no space left on device")
    /\ ContentOf(fs, Dest(1)) = <<PlainFile>>
    /\ IsFile(fs, Dest(2)) /\ ContentOf(fs, Dest(2)) = <<>>

\* C13: every file WriteSolutionFiles creates or writes, and every
\* directory it creates, lies under the exercise's metadata directory (the
\* directories above that one, which MkdirAll creates with it, set aside),
\* also for entries with '..' segments or leading separators.
C13_WritesStayUnderDestination ==
    (writer # Nil /\ writer.Download # Nil) =>
        LET dir == MetadataDir(Exercise(writer.Download))
        IN  /\ \A e \in fs.files \ fs0.files : IsUnder(e.path, dir)
            /\ \A q \in fs.dirs \ fs0.dirs : IsUnder(q, dir) \/ q \in Ancestors(dir)

\* The server has an entry of the list whose destination is path.
FetchedDestination(path) ==
    \E i \in 1..Len(Files) : Fetchable(i) /\ Dest(i) = path

\* C14: WriteSolutionFiles never deletes a file, and every file that was
\* there before keeps its content unless its path is the destination of a
\* listed file the server has (status 200, length not zero): one at the
\* destination of a skipped entry keeps its old content, one at the
\* destination of a fetched entry is overwritten unasked.
C14_OtherFilesUntouched ==
    /\ \A e \in fs0.files :
          /\ IsFile(fs, e.path)
          /\ ~FetchedDestination(e.path) => ContentOf(fs, e.path) = e.content
          /\ (Completed /\ FetchedDestination(e.path)) =>
                ContentOf(fs, e.path) = server[LastFetchable(e.path)].Body
    /\ fs0.dirs \subseteq fs.dirs

\* Files were there at both destinations; the first entry was skipped, the
\* second fetched: the first file is as it was, the second overwritten.
C14_Witness ==
    /\ Completed
    /\ fs0 = PopulatedFS
    /\ Files = <<PlainFile, OtherFile>>
    /\ done = <<"skipped", "written">>
    /\ ContentOf(fs, Dest(1)) = OldContent
    /\ ContentOf(fs, Dest(2)) = <<OtherFile>>

\* WriteSolutionFiles from entry i on, on the filesystem f, with nothing
\* failing but what the list, the server and the filesystem make fail.
RECURSIVE UninterruptedRun(_, _)
UninterruptedRun(f, i) ==
    IF i > Len(Files) THEN [fs |-> f, err |-> NoErr]
    ELSE LET r == requestFile(writer.Download, Files[i], [err |-> NoErr, res |-> server[i]])
             w == WriteFile(f, Dest(i), r.res.Body, "none")
         IN  IF r.err # NoErr THEN [fs |-> f, err |-> r.err]
             ELSE IF r.res = Nil THEN UninterruptedRun(f, i + 1)
             ELSE IF w.err # NoErr THEN [fs |-> w.fs, err |-> w.err]
             ELSE UninterruptedRun(w.fs, i + 1)

\* C15: a WriteSolutionFiles that is invoked again after an aborted run
\* starts over at the first entry, and when it completes against the same
\* server the filesystem is what one uninterrupted run from the starting
\* filesystem produces; a second run after a completed one changes nothing.
C15_RetryEndsLikeOneRun ==
    /\ Completed =>
          /\ UninterruptedRun(fs0, 1).err = NoErr
          /\ fs = UninterruptedRun(fs0, 1).fs
          /\ Len(done) = Len(Files)
          /\ requested = [i \in 1..Len(Files) |-> i]
    /\ (run # "first" /\ pc \in {"request", "write"}) =>
          /\ Len(done) = idx - 1
          /\ \A k \in SeqRange(requested) : k <= idx

\* The first run failed, the retry has completed and has written both
\* files over what the first run and the time before it had left.
C15_Witness ==
    /\ Completed
    /\ run = "retry"
    /\ fs0 = PopulatedFS
    /\ Files = <<PlainFile, OtherFile>>
    /\ done = <<"written", "written">>
    /\ ContentOf(fs, Dest(1)) = <<PlainFile>>
    /\ ContentOf(fs, Dest(2)) = <<OtherFile>>

\* C16: WriteMetadata makes exactly one Write call, to the injected
\* fileWriter when one is set and to the metadata projected from the payload
\* otherwise, with the exercise's metadata directory as target; it returns
\* an error if and only if that Write returns one, and it requests and
\* writes no file.
C16_OneWriteToCollaborator ==
    [][pc' = "metadata" =>
          LET collaborator == IF writer.fileWriter = Nil
                              THEN [AutoApprove |-> FALSE, Track |-> <<"g">>,
                                    Team |-> <<>>, Exercise |-> <<"s">>,
                                    ID |-> "bogus-id", URL |-> "",
                                    Handle |-> <<"h">>, IsRequester |-> TRUE]
                              ELSE writer.fileWriter
          IN  /\ Len(metaWrites') = Len(metaWrites) + 1
              /\ SubSeq(metaWrites', 1, Len(metaWrites)) = metaWrites
              /\ metaWrites'[Len(metaWrites')].by = collaborator
              /\ metaWrites'[Len(metaWrites')].dir = ExerciseDir
              /\ err' = metaWrites'[Len(metaWrites')].result
              /\ fs' = fs
              /\ requested' = requested
              /\ open' = open]_vars

\* The mock was injected and its Write failed: WriteMetadata returned that
\* error after the one call.
C16_Witness ==
    /\ pc = "metadata"
    /\ Len(metaWrites) = 1
    /\ metaWrites[1].by = MockWriter
    /\ metaWrites[1].dir = ExerciseDir
    /\ err = Error("write metadata: permission denied")

\* The entries 1 to n in list order.
UpTo(n) == [i \in 1..n |-> i]

\* C20: WriteSolutionFiles goes through the list in order, one entry at a
\* time: when the request for an entry is issued, every entry before it has
\* been skipped or written in full, and the one just before it, if written,
\* has its whole body on disk; no entry is requested twice in an
\* invocation, and a run that returns nil has requested every entry once.
C20_OneRequestPerEntryInOrder ==
    /\ pc = "request" =>
          /\ requested = UpTo(idx - 1)
          /\ Len(done) = idx - 1
          /\ (idx > 1 /\ done[idx - 1] = "written") =>
                /\ IsFile(fs, Dest(idx - 1))
                /\ ContentOf(fs, Dest(idx - 1)) = server[idx - 1].Body
    /\ pc = "write" =>
          /\ requested = UpTo(idx)
          /\ Len(done) = idx - 1
    /\ pc = "returned" =>
          /\ \E n \in 0..Len(Files) : requested = UpTo(n)
          /\ Len(done) <= Len(requested)
          /\ err = NoErr => (requested = UpTo(Len(Files)) /\ Len(done) = Len(Files))
    /\ \A i \in 1..Len(done) : done[i] \in {"skipped", "written"}

\* The second entry is about to be requested, after the first was written.
C20_Witness ==
    /\ pc = "request"
    /\ idx = 2
    /\ requested = <<1>>
    /\ done = <<"written">>
    /\ ContentOf(fs, Dest(1)) = server[1].Body

\* C25: when WriteSolutionFiles returns, with nil or with an error, the
\* body of every response a file request received is closed, the bodies of
\* the responses skipped for their status or their Content-Length
\* included, and every file that was opened is closed.
C25_NothingLeftOpen ==
    pc = "returned" => open = {}

\* C26: an empty file name in the list is not skipped: requestFile returns
\* the error "filename is empty" and sends no request for it, and
\* WriteSolutionFiles returns that error; the entries before it that were
\* written are in place and no entry after it is requested.
C26_EmptyNameAborts ==
    \A k \in 1..Len(Files) :
        (Files[k] = EmptyFileName /\ \A j \in 1..(k - 1) : Files[j] # EmptyFileName) =>
            /\ \A i \in SeqRange(requested) : i < k
            /\ Len(done) < k
            /\ ~Completed
            /\ (pc = "returned" /\ idx = k) =>
                  /\ err = Error("filename is empty")
                  /\ Len(done) = k - 1
                  /\ \A i \in 1..(k - 1) :
                        done[i] = "written" =>
                            ContentOf(fs, Dest(i)) = <<Files[LastWrittenBefore(Dest(i), k)]>>

\* The first entry was fetched and written, the second is the empty name:
\* WriteSolutionFiles returned the error and requested the first only.
C26_Witness ==
    /\ pc = "returned"
    /\ Files = <<PlainFile, EmptyFileName>>
    /\ err = Error("filename is empty")
    /\ requested = <<1>>
    /\ done = <<"written">>
    /\ ContentOf(fs, Dest(1)) = <<PlainFile>>

\* The errors that come from outside: the connection, or the disk refusing
\* a directory, a file or a write.
OutsideErrors ==
    {Error("dial tcp: connection refused"), Error("mkdir: permission denied"),
     Error("open: permission denied"), Error("write: no space left on device")}

\* Entry j is the last entry with its destination that the server has.
LastFetchedAt(j) ==
    /\ Fetchable(j)
    /\ \A k \in (j + 1)..Len(Files) : Dest(k) = Dest(j) => ~Fetchable(k)

\* C27: when entries of the file list have the same destination, the
\* collision makes no error: WriteSolutionFiles fails at the later entry only
\* for the connection or the disk; when it has returned nil the destination
\* holds exactly the body of the later entry if both were fetched, and the
\* body of the earlier one if the later entries were skipped.
C27_LaterEntryWins ==
    /\ (Failed /\ idx \in 1..Len(Files) /\ Len(done) = idx - 1
           /\ \E i \in 1..(idx - 1) : done[i] = "written" /\ Dest(i) = Dest(idx)) =>
          err \in OutsideErrors
    /\ Completed =>
          \A i \in 1..Len(Files) : \A j \in (i + 1)..Len(Files) :
              (Dest(i) = Dest(j) /\ Fetchable(i)) =>
                  /\ LastFetchedAt(j) => ContentOf(fs, Dest(j)) = server[j].Body
                  /\ LastFetchedAt(i) => ContentOf(fs, Dest(i)) = server[i].Body

\* A name and the same name with a leading slash were both fetched: the
\* one file holds the body of the second.
C27_Witness ==
    /\ Completed
    /\ run = "first"
    /\ Files = <<PlainFile, LeadingSlashFile>>
    /\ Dest(1) = Dest(2)
    /\ done = <<"written", "written">>
    /\ ContentOf(fs, Dest(1)) = <<LeadingSlashFile>>

(***************************************************************************)
(* The service's other version (the second file of                         *)
(* src/service/download_test.go): a Download is initiated from flags or    *)
(* from an exercise, carries its writer, and remembers where it came from. *)
(***************************************************************************)
downloadParams(cfg, uuid, slg, track, team, fromFlags, fromExercise) ==
    [usrCfg |-> cfg, uuid |-> uuid, slug |-> slg, track |-> track, team |-> team,
     fromFlags |-> fromFlags, fromExercise |-> fromExercise]

\* The loop over requiredUsrCfgs, from index i on.
RECURSIVE checkRequiredUsrCfgs(_, _)
checkRequiredUsrCfgs(cfg, i) ==
    IF i > Len(RequiredCfgs) THEN NoErr
    ELSE IF IsEmpty(GetString(cfg, RequiredCfgs[i]))
         THEN Error("missing required user config: '" \o RequiredCfgs[i] \o "'")
         ELSE checkRequiredUsrCfgs(cfg, i + 1)

\* downloadParams.validate
downloadParamsValidate(d) ==
    IF (d.slug # "" /\ d.uuid # "") \/ d.uuid = d.slug
    THEN IF d.fromFlags THEN Error("need an --exercise name or a solution --uuid")
         ELSE Error("need a 'slug' or a 'uuid'")
    ELSE checkRequiredUsrCfgs(d.usrCfg, 1)

\* newDownloadParamsFromFlags: the four flags are read, then d is returned
\* together with validate's verdict.
newDownloadParamsFromFlags(cfg, flags) ==
    LET u == FlagGetString(flags, "uuid")
        e == FlagGetString(flags, "exercise")
        t == FlagGetString(flags, "track")
        m == FlagGetString(flags, "team")
        d == downloadParams(cfg, u.val, e.val, t.val, m.val, TRUE, FALSE)
    IN  IF u.err # NoErr THEN [params |-> Nil, err |-> u.err]
        ELSE IF e.err # NoErr THEN [params |-> Nil, err |-> e.err]
        ELSE IF t.err # NoErr THEN [params |-> Nil, err |-> t.err]
        ELSE IF m.err # NoErr THEN [params |-> Nil, err |-> m.err]
        ELSE [params |-> d, err |-> downloadParamsValidate(d)]

\* A newDownloadParamsFromExercise that does not mark where the params come from.
newDownloadParamsFromExerciseUnmarked(cfg, ex) ==
    LET d == downloadParams(cfg, "", ex.Slug, ex.Track, "", FALSE, FALSE)
    IN  [params |-> d, err |-> downloadParamsValidate(d)]

\* newDownloadParamsFromExercise
newDownloadParamsFromExercise(cfg, ex) ==
    LET d == downloadParams(cfg, "", ex.Slug, ex.Track, "", FALSE, TRUE)
    IN  [params |-> d, err |-> downloadParamsValidate(d)]

\* newDownloadWriter: the metadata writer is the payload's metadata, the
\* requester the Download.
newDownloadWriter(d) ==
    [Download |-> d, fileWriter |-> metadata(d), downloader |-> d]

\* Download.validate of this version.
validateMissingID(d) ==
    IF d.downloadPayload.Solution.ID = "" THEN Error("Download missing ID")
    ELSE IF d.downloadPayload.Error.Message # ""
         THEN Error(d.downloadPayload.Error.Message)
    ELSE NoErr

\* newDownload: the fetch is the one of NewDownload; at status 200 the
\* writer is made (which reads the payload) and the Download is returned
\* together with validate's verdict.
newDownload(p, do) ==
    IF downloadParamsValidate(p) # NoErr
    THEN [download |-> Nil, writer |-> Nil, err |-> downloadParamsValidate(p), panic |-> FALSE]
    ELSE LET r == NewDownload(p, do)
         IN  IF r.panic \/ r.err # NoErr
             THEN [download |-> Nil, writer |-> Nil, err |-> r.err, panic |-> r.panic]
             ELSE IF r.download.downloadPayload = Nil
             THEN [download |-> Nil, writer |-> Nil, err |-> NoErr, panic |-> TRUE]
             ELSE [download |-> r.download, writer |-> newDownloadWriter(r.download),
                   err |-> validateMissingID(r.download), panic |-> FALSE]

\* NewDownloadFromFlags
NewDownloadFromFlags(cfg, flags, do) ==
    LET ps == newDownloadParamsFromFlags(cfg, flags)
    IN  IF ps.err # NoErr
        THEN [download |-> Nil, writer |-> Nil, err |-> ps.err, panic |-> FALSE]
        ELSE newDownload(ps.params, do)

\* NewDownloadFromExercise
NewDownloadFromExercise(cfg, ex, do) ==
    LET ps == newDownloadParamsFromExercise(cfg, ex)
    IN  IF ps.err # NoErr
        THEN [download |-> Nil, writer |-> Nil, err |-> ps.err, panic |-> FALSE]
        ELSE newDownload(ps.params, do)

\* The callers' inputs: a config that is complete or lacks its token,
\* flag sets with all flags defined, exercises with or without a slug.
InitiatedConfigs == {WriterConfig, [WriterConfig EXCEPT !.token = ""]}

InitiatedFlagSets ==
    {f \in FlagSets : f.defined = FlagNames /\ f.track = "" /\ f.team = ""}

InitiatedExercises == {e \in Exercises : e.Track = "bogus-track"}

\* What client.Do gives back for the solution record: a transport error, a
\* solution with a file list, an error object alone, or the body null.
InitiatedOutcomes ==
    { [err |-> Error("dial tcp: connection refused"), res |-> Nil] }
    \cup { [err |-> NoErr,
            res |-> [StatusCode |-> StatusOK,
                     Body |-> [kind |-> "object",
                               solution |-> d.downloadPayload.Solution,
                               error |-> Absent]]] : d \in WriterDownloads }
    \cup { [err |-> NoErr,
            res |-> [StatusCode |-> StatusOK,
                     Body |-> [kind |-> "object", solution |-> Absent,
                               error |-> [Type |-> "", Message |-> "error-msg",
                                          PossibleTrackIDs |-> <<>>]]]],
           [err |-> NoErr, res |-> [StatusCode |-> StatusOK, Body |-> [kind |-> "null"]]] }

\* The Download a constructor returned is taken up: it is kept with its
\* writer when the error is nil, and a file server and a filesystem are
\* there for it.
Initiated(r) ==
    /\ err' = r.err
    /\ pc' = IF r.panic THEN "panic" ELSE IF r.err # NoErr THEN "failed" ELSE "writer"
    /\ download' = r.download
    /\ writer' = r.writer
    /\ params' = IF r.download = Nil THEN Nil ELSE r.download.DownloadParams
    /\ IF r.err = NoErr /\ ~r.panic
       THEN /\ server' \in Servers(r.download.downloadPayload.Solution.Files)
            /\ fs0' \in StartingFilesystems
            /\ fs' = fs0'
       ELSE UNCHANGED <<server, fs0, fs>>
    /\ UNCHANGED <<request, response, exercise>>
    /\ UNCHANGED sanVars
    /\ UNCHANGED Out
    /\ UNCHANGED <<idx, requested, done, run, open, deferred, metaWrites>>

NewDownloadFromFlagsCall ==
    /\ pc = "start"
    /\ \E cfg \in InitiatedConfigs, flags \in InitiatedFlagSets, do \in InitiatedOutcomes :
          /\ call' = [fn |-> "NewDownloadFromFlags", usrCfg |-> cfg, flags |-> flags]
          /\ Initiated(NewDownloadFromFlags(cfg, flags, do))

NewDownloadFromExerciseCall ==
    /\ pc = "start"
    /\ \E cfg \in InitiatedConfigs, ex \in InitiatedExercises, do \in InitiatedOutcomes :
          /\ call' = [fn |-> "NewDownloadFromExercise", usrCfg |-> cfg, exercise |-> ex]
          /\ Initiated(NewDownloadFromExercise(cfg, ex, do))

\* downloadWriter.WriteSolutionFiles is entered: a Download that comes from
\* an exercise is refused; otherwise the loop starts at the first entry,
\* and with an empty list nil is returned at once.
WriteSolutionFilesOfInitiatedCall ==
    /\ pc = "writer"
    /\ IF writer.Download.DownloadParams.fromExercise
       THEN /\ pc' = "returned"
            /\ err' = Error("existing exercise files should not be overwritten")
            /\ UNCHANGED idx
       ELSE /\ err' = NoErr
            /\ IF Files = <<>>
               THEN pc' = "returned" /\ UNCHANGED idx
               ELSE pc' = "request" /\ idx' = 1
    /\ UNCHANGED <<call, params, request, response, download, writer, exercise>>
    /\ UNCHANGED sanVars
    /\ UNCHANGED Out
    /\ UNCHANGED <<fs, fs0, server, requested, done, run, open, deferred, metaWrites>>

\* downloadWriter.WriteMetadata: one Write call to the metadata writer for
\* the destination, whose error is returned.
WriteMetadataOfInitiatedCall ==
    /\ pc \in {"writer", "returned"}
    /\ \E writeErr \in {NoErr, Error("write metadata: permission denied")} :
          /\ metaWrites' = Append(metaWrites,
                [by |-> writer.fileWriter,
                 dir |-> MetadataDir(Exercise(writer.Download)),
                 result |-> writeErr])
          /\ err' = writeErr
    /\ pc' = "metadata"
    /\ UNCHANGED <<call, params, request, response, download, writer, exercise>>
    /\ UNCHANGED sanVars
    /\ UNCHANGED Out
    /\ UNCHANGED <<fs, fs0, server, idx, requested, done, run, open, deferred>>

NextInitiated ==
    \/ NewDownloadFromFlagsCall
    \/ NewDownloadFromExerciseCall
    \/ WriteSolutionFilesOfInitiatedCall
    \/ RequestFileStep
    \/ WriteFileStep
    \/ WriteMetadataOfInitiatedCall

SpecInitiated == Init /\ [][NextInitiated]_vars

(***************************************************************************)
(* Claims about the Download that remembers where it was initiated from,   *)
(* checked under SpecInitiated.                                            *)
(***************************************************************************)
Refusal == Error("existing exercise files should not be overwritten")

\* A Download was initiated, without error, by the named constructor.
InitiatedBy(fn) ==
    /\ call # Nil
    /\ call.fn = fn
    /\ pc \in {"writer", "request", "write", "returned", "metadata"}

\* C19: for a Download initiated from an exercise, WriteSolutionFiles
\* returns the refusal 'existing exercise files should not be overwritten'
\* before it requests or writes any file, whatever the file list, while
\* WriteMetadata makes its Write call and returns its result; a Download
\* initiated from flags is not refused.
C19_FromExerciseWritesMetadataOnly ==
    /\ InitiatedBy("NewDownloadFromExercise") =>
          /\ pc \notin {"request", "write"}
          /\ requested = <<>>
          /\ fs = fs0
          /\ open = {}
          /\ pc = "returned" => err = Refusal
          /\ pc = "metadata" =>
                /\ Len(metaWrites) = 1
                /\ metaWrites[1].by = metadata(download)
                /\ metaWrites[1].dir = ExerciseDir
                /\ err = metaWrites[1].result
    /\ InitiatedBy("NewDownloadFromFlags") =>
          /\ err # Refusal
          /\ (pc = "returned" /\ err = NoErr) =>
                (requested = UpTo(Len(Files)) /\ Len(done) = Len(Files))

\* A Download from an exercise, whose list has two files the server has,
\* was refused with nothing requested and nothing written.
C19_Witness ==
    /\ InitiatedBy("NewDownloadFromExercise")
    /\ pc = "returned"
    /\ err = Refusal
    /\ Files = <<PlainFile, OtherFile>>
    /\ Fetchable(1) /\ Fetchable(2)
    /\ requested = <<>>
    /\ fs = fs0

(***************************************************************************)
(* The download command (src/cmd/download.go): runDownload validates the   *)
(* user config, makes its context (params from the flags, NewDownload,     *)
(* NewDownloadWriter), writes the solution files, writes the metadata and  *)
(* prints where the exercise went.  Every error ends the command.          *)
(***************************************************************************)
\* validateUserConfig: a token is needed first, then a workspace and an
\* api base url; the messages are the formats, with what they are filled from.
validateUserConfig(cfg) ==
    IF GetString(cfg, "token") = ""
    THEN Error("msgWelcomePleaseConfigure: " \o GetString(cfg, "apibaseurl"))
    ELSE IF GetString(cfg, "workspace") = <<>> \/ GetString(cfg, "apibaseurl") = ""
    THEN Error("msgRerunConfigure")
    ELSE NoErr

\* The user configs the command is run with: complete, or lacking a key.
CommandConfigs ==
    {WriterConfig,
     [WriterConfig EXCEPT !.token = ""],
     [WriterConfig EXCEPT !.workspace = <<>>],
     [WriterConfig EXCEPT !.apibaseurl = ""]}

\* The command's flag set: setupDownloadFlags defines all four flags.
CommandFlagSets ==
    {f \in FlagSets : f.defined = FlagNames /\ f.track = "" /\ f.team = ""}

CommandFileNames == {PlainFile, LeadingSlashFile}

\* The solutions the API may send to the command, with or without an id.
CommandSolutions ==
    { [ID |-> id,
       URL |-> "",
       Team |-> [Slug |-> <<>>],
       User |-> [Handle |-> <<"h">>, IsRequester |-> TRUE],
       Exercise |-> [ID |-> <<"s">>, AutoApprove |-> FALSE, Track |-> [ID |-> <<"g">>]],
       FileDownloadBaseURL |-> GoodFileBase,
       Files |-> files] :
        id \in {"", "bogus-id"}, files \in SeqsUpTo(CommandFileNames, MaxFiles) }

CommandError == [Type |-> "", Message |-> "error-msg", PossibleTrackIDs |-> <<>>]

\* What client.Do gives back for the solution record: a transport error,
\* or a 200, a 401 or a 400 whose body is no JSON, is null, or is an object
\* with or without a solution and with or without an error.
CommandOutcomes ==
    { [err |-> Error("dial tcp: connection refused"), res |-> Nil] }
    \cup { [err |-> NoErr, res |-> [StatusCode |-> st, Body |-> b]] :
             st \in {StatusOK, StatusUnauthorized, 400},
             b \in { [kind |-> "garbage", cause |-> "EOF"], [kind |-> "null"] }
                   \cup { [kind |-> "object", solution |-> so, error |-> eo] :
                            so \in {Absent} \cup CommandSolutions,
                            eo \in {Absent, CommandError} } }

InitCommand ==
    /\ pc = "start"
    /\ call = Nil
    /\ params = Nil
    /\ err = NoErr
    /\ request = Nil
    /\ response = Nil
    /\ download = Nil
    /\ writer = Nil
    /\ exercise = Nil
    /\ file = <<>>
    /\ slug = <<>>
    /\ sanitized = <<>>
    /\ writePath = <<>>
    /\ fs0 \in StartingFilesystems
    /\ fs = fs0
    /\ server = <<>>
    /\ idx = 0
    /\ requested = <<>>
    /\ done = <<>>
    /\ run = "first"
    /\ open = {}
    /\ deferred = <<>>
    /\ metaWrites = <<>>
    /\ Out = <<>>

\* runDownload is entered with a config and the flags; validateUserConfig.
validateUserConfigStep ==
    /\ pc = "start"
    /\ \E cfg \in CommandConfigs, flags \in CommandFlagSets :
          /\ call' = [fn |-> "runDownload", usrCfg |-> cfg, flags |-> flags]
          /\ err' = validateUserConfig(cfg)
          /\ pc' = IF validateUserConfig(cfg) # NoErr THEN "exit" ELSE "configured"
    /\ UNCHANGED <<params, request, response, download, writer, exercise>>
    /\ UNCHANGED sanVars
    /\ UNCHANGED wrVars
    /\ UNCHANGED Out

\* newDownloadCmdContext, first step: the params from the flags.
NewDownloadParamsFromFlagsStep ==
    /\ pc = "configured"
    /\ LET r == ParamsFromFlags(call.usrCfg, call.flags)
       IN  /\ params' = r.params
           /\ err' = r.err
           /\ pc' = IF r.err # NoErr THEN "exit" ELSE "resolved"
    /\ UNCHANGED <<call, request, response, download, writer, exercise>>
    /\ UNCHANGED sanVars
    /\ UNCHANGED wrVars
    /\ UNCHANGED Out

\* newDownloadCmdContext, second step: NewDownload.  The file server has
\* an answer for every file the solution record lists.
NewDownloadStep ==
    /\ pc = "resolved"
    /\ \E do \in IF SendsRequest(params) THEN CommandOutcomes
                  ELSE {o \in CommandOutcomes : o.res = Nil} :
          LET r == NewDownload(params, do)
          IN  /\ download' = r.download
              /\ err' = r.err
              /\ request' = r.request
              /\ response' = r.response
              /\ pc' = IF r.panic THEN "panic"
                       ELSE IF r.err # NoErr THEN "exit" ELSE "fetched"
              /\ IF r.download # Nil /\ r.download.downloadPayload # Nil
                 THEN server' \in Servers(r.download.downloadPayload.Solution.Files)
                 ELSE UNCHANGED server
    /\ UNCHANGED <<call, params, writer, exercise>>
    /\ UNCHANGED sanVars
    /\ UNCHANGED <<fs, fs0, idx, requested, done, run, open, deferred, metaWrites>>
    /\ UNCHANGED Out

\* newDownloadCmdContext, third step: NewDownloadWriter, which validates
\* the Download.
NewDownloadWriterStep ==
    /\ pc = "fetched"
    /\ LET r == NewDownloadWriter(download)
       IN  /\ writer' = r.writer
           /\ err' = r.err
           /\ pc' = IF r.panic THEN "panic"
                    ELSE IF r.err # NoErr THEN "exit" ELSE "writer"
    /\ UNCHANGED <<call, params, request, response, download, exercise>>
    /\ UNCHANGED sanVars
    /\ UNCHANGED wrVars
    /\ UNCHANGED Out

\* ctx.WriteSolutionFiles() is entered.
WriteSolutionFilesStep ==
    /\ pc = "writer"
    /\ WriteSolutionFilesCall

\* ctx.WriteMetadata(), reached when WriteSolutionFiles returned nil.
WriteMetadataStep ==
    /\ pc = "returned"
    /\ err = NoErr
    /\ WriteMetadataCall

\* A printResult that does not wait for WriteMetadata's result.
printResultAlways ==
    /\ pc = "metadata"
    /\ Out' = Append(Out, MetadataDir(Exercise(writer.Download)))
    /\ pc' = "printed"
    /\ UNCHANGED <<call, params, err, request, response, download, writer, exercise>>
    /\ UNCHANGED sanVars
    /\ UNCHANGED wrVars

\* ctx.printResult(), reached when WriteMetadata returned nil: the
\* exercise's metadata directory goes to Out.
printResult ==
    /\ pc = "metadata"
    /\ err = NoErr
    /\ Out' = Append(Out, MetadataDir(Exercise(writer.Download)))
    /\ pc' = "printed"
    /\ UNCHANGED <<call, params, err, request, response, download, writer, exercise>>
    /\ UNCHANGED sanVars
    /\ UNCHANGED wrVars

NextCommand ==
    \/ validateUserConfigStep
    \/ NewDownloadParamsFromFlagsStep
    \/ NewDownloadStep
    \/ NewDownloadWriterStep
    \/ WriteSolutionFilesStep
    \/ RequestFileStep
    \/ WriteFileStep
    \/ WriteMetadataStep
    \/ printResult

SpecCommand == InitCommand /\ [][NextCommand]_vars

(***************************************************************************)
(* Claims about the download command, checked under SpecCommand.           *)
(***************************************************************************)
\* C21: runDownload takes its steps in the order user-config validation,
\* params from the flags, NewDownload, NewDownloadWriter (the download's
\* validation), WriteSolutionFiles, WriteMetadata, printResult, and takes a
\* step only when every step before it returned nil: no metadata is written
\* after a WriteSolutionFiles that returned an error, and the destination
\* is printed only after both writes returned nil.
C21_StepsInOrderEachAfterSuccess ==
    [][/\ params' # params =>
             /\ pc = "configured"
             /\ validateUserConfig(call.usrCfg) = NoErr
             /\ err = NoErr
       /\ (request' # request \/ download' # download) =>
             /\ pc = "resolved"
             /\ params # Nil
             /\ err = NoErr
       /\ (writer = Nil /\ writer' # Nil) =>
             /\ pc = "fetched"
             /\ download # Nil
             /\ err = NoErr
       /\ (requested' # requested \/ fs' # fs \/ idx' # idx) =>
             /\ pc \in {"writer", "request", "write"}
             /\ writer # Nil
             /\ metaWrites = <<>>
             /\ Out = <<>>
       /\ pc' = "request" => err' = NoErr
       /\ metaWrites' # metaWrites =>
             /\ pc = "returned"
             /\ err = NoErr
             /\ Len(done) = Len(Files)
             /\ metaWrites = <<>>
             /\ Out = <<>>
       /\ Out' # Out =>
             /\ pc = "metadata"
             /\ err = NoErr
             /\ Len(metaWrites) = 1
             /\ metaWrites[1].result = NoErr
             /\ Len(done) = Len(Files)
             /\ Out' = <<ExerciseDir>>]_vars

\* The command went through all its steps: two files were requested and
\* written, the metadata was written and the destination printed.
C21_Witness ==
    /\ pc = "printed"
    /\ call.fn = "runDownload"
    /\ request # Nil
    /\ requested = <<1, 2>>
    /\ done = <<"written", "written">>
    /\ Len(metaWrites) = 1
    /\ Out = <<ExerciseDir>>

\* The payload the command fetched has no solution id or carries an error.
RejectedPayload ==
    /\ download # Nil
    /\ download.downloadPayload # Nil
    /\ \/ download.downloadPayload.Solution.ID = ""
       \/ download.downloadPayload.Error.Message # ""

\* C23: in the command no solution file and no metadata is written for a
\* download whose payload has an empty solution id or a non-empty error
\* message: NewDownloadWriter returns an error for it, the command ends with
\* that error, and WriteSolutionFiles and WriteMetadata are not reached; the
\* filesystem stays as it was and nothing is requested or printed.
C23_RejectedDownloadWritesNothing ==
    RejectedPayload =>
        /\ pc \in {"fetched", "exit"}
        /\ writer = Nil
        /\ fs = fs0
        /\ requested = <<>>
        /\ metaWrites = <<>>
        /\ Out = <<>>
        /\ pc = "exit" =>
              err = IF download.downloadPayload.Solution.ID = ""
                    THEN Error("Download is empty")
                    ELSE Error(download.downloadPayload.Error.Message)

\* A 200 response that carried only an error object: the command ended
\* with an error and the files that were there are as they were.
C23_Witness ==
    /\ pc = "exit"
    /\ response # Nil
    /\ response.StatusCode = StatusOK
    /\ response.Body = [kind |-> "object", solution |-> Absent, error |-> CommandError]
    /\ RejectedPayload
    /\ err = Error("Download is empty")
    /\ fs0 = PopulatedFS
    /\ fs = PopulatedFS
====
